---- MODULE Spec2Model ----
(***************************************************************************)
(* Session engine of backend/service.py: the session table ssh_sessions,   *)
(* the per-client index client_sessions, the socket.io handlers open_ssh,  *)
(* ssh_input and close_ssh, the read_output thread of every session and    *)
(* the two atexit cleanup functions.                                       *)
(*                                                                         *)
(* monkey.patch_all() (line 2) makes every thread a greenlet: control      *)
(* changes hands only at a blocking call.  A block that runs under         *)
(* sessions_lock is therefore one action for every other task that takes   *)
(* the lock, and a handler is cut into several actions exactly at the      *)
(* blocking calls it makes outside the lock: ssh.connect and               *)
(* socketio.sleep in handle_ssh_connection, socketio.sleep and the         *)
(* acquisition of sessions_lock in read_output.                            *)
(*                                                                         *)
(* The protocol library is outside the repository.  What the model takes   *)
(* from it: Channel.close() marks the channel closed before it sends the   *)
(* close message, so a close() that raises leaves the channel closed;      *)
(* Channel.send() on a closed channel raises.                              *)
(***************************************************************************)
EXTENDS Integers, Sequences, FiniteSets, TLC

\* How many open_ssh requests are handled in a run.  The SSHSession object
\* of a request carries the number of the request.
MaxObj == 2

\* request.sid of the socket.io clients, and the session ids they send
Clients == {"c1", "c2"}
Sids == {"s1"}
Objs == 1..MaxObj

\* ssh_sessions.get(session_id) of an absent key; no object
None == 0
\* no client id (SSHSession.client_id = None), no session id
NoClient == "none"
NoSid == "none"
\* emit(...) without room=: every connected client receives the event
Broadcast == "broadcast"

\* The last second of a run, and the steps in which time.time() advances
MaxTime == 125
Ticks == {30, 31}

\* "if current_time - last_activity > 60" of read_output
KeepaliveAfter == 60

\* Transfers.  MaxXfer: how many times create_transfer is called in a run;
\* the TransferProgress object of a call carries the number of the call.
\* MaxFile: how many staging files are named in a run.  MaxBlocks: the most
\* blocks a remote file has; a block is what one progress callback of the
\* transfer library covers, and what one upload chunk carries.
MaxXfer == 2
MaxFile == 2
MaxBlocks == 2
Tids == {"t1", "t2"}
Progs == 1..MaxXfer
Files == 1..MaxFile
\* A tempFileId made up by its sender, naming a path under a directory of
\* the staging directory that does not exist; Names: all staging paths.
ForeignId == MaxFile + 1
Names == Files \cup {ForeignId}

VARIABLES
    connected,        \* the socket.io clients (request.sid) still connected
    ssh_sessions,     \* session id -> SSHSession object, None when absent
    client_sessions,  \* client id -> set of session ids (a dict: partial)
    objs,             \* the SSHSession objects and their handles
    nextObj,          \* the number of the next open_ssh request
    openReq,          \* per client: its open_ssh handler, position and locals
    emitted,          \* the event emitted by the last step, NoEvent if none
    wrote,            \* the channel.send calls of the last step, NoWrite if none
    printed,          \* what the last step of handle_ssh_close printed, or "none"
    phase,            \* "running", or "exited" once atexit has run
    resizeReq,        \* the resize handler in progress, position and locals
    resize_calls,     \* resize_pty / update_environment of the last step
    now,              \* time.time(), in seconds since the start
    last_activity,    \* per session object: last_activity of its read_output
    progs,            \* the TransferProgress objects
    nextProg,         \* the number of the next create_transfer call
    transfers,        \* transfer_manager._transfers: id -> object, None if absent
    cancel_flags,     \* transfer_manager._cancel_flags: id -> flag, "absent" if absent
    files,            \* the staging files: on disk or not, size, creating transfer
    nextFile,         \* the number of the next staging file name
    upReq,            \* the upload_file request in progress, position and locals
    downReq,          \* the download_file request in progress, position and locals
    response,         \* what the last step returned to an HTTP client
    cancel_acked,     \* ids whose cancel_transfer succeeded (not in the code)
    downLink,         \* ssh / sftp of the download request: "none", "open", "closed"
    held,             \* the operations of the last step, each with the locks held
    recv_queue,       \* bytes the remote side wrote that recv has not returned yet
    buffer,           \* the bytearray buffer of read_output
    output,           \* the text of the ssh_output events so far, joined
    remote_bytes,     \* every byte the remote side wrote, in order (not in the code)
    sessions_lock_owner, \* the task inside "with sessions_lock", Free if none
    session_lock_owner,  \* per session object: the task inside "with session.lock"
    handler,          \* the socket.io handlers as tasks: kind, position, session object
    pump,             \* per session object: the position of its read_output thread
    atexit,           \* the position of the exit of the process in its cleanup functions
    delReq            \* the cleanup_temp_file call in progress: position, locals, unlink log

\* the session table, its objects and what the last step let out
sessionVars == <<connected, ssh_sessions, client_sessions, objs, nextObj, openReq,
                 emitted, wrote, printed, phase>>

resizeVars == <<resizeReq, resize_calls>>

clockVars == <<now, last_activity>>

transferVars == <<progs, nextProg, transfers, cancel_flags, files, nextFile,
                  upReq, downReq, response, cancel_acked, downLink>>

lockVars == <<held>>

decodeVars == <<recv_queue, buffer, output, remote_bytes>>

mutexVars == <<sessions_lock_owner, session_lock_owner, handler, pump, atexit>>

vars == <<sessionVars, resizeVars, clockVars, transferVars, lockVars, decodeVars,
          mutexVars, delReq>>

NoEvent == [event |-> "none", room |-> Broadcast, session_id |-> NoSid, type |-> "none"]

Event(ev, room, sid, type) ==
    [event |-> ev, room |-> room, session_id |-> sid, type |-> type]

\* obj: the session object whose channel was written, data: what every
\* channel.send call put on the channel, in order
NoWrite == [obj |-> None, data |-> <<>>]

\* An object nobody has constructed yet.
NoObj ==
    [client_id |-> NoClient, session_id |-> NoSid, active |-> FALSE,
     channel |-> "none", ssh_client |-> "none", read_thread |-> "none",
     closed_events |-> 0]

\* ssh is the local ssh of create_ssh_client: "none" before the request,
\* "connecting" while ssh.connect blocks, then "open" or "closed".
\* present is not in the code: whether the session id was registered when
\* the request arrived, recorded for the properties about re-opening.
IdleReq ==
    [pc |-> "idle", session_id |-> NoSid, obj |-> None, ssh |-> "none",
     present |-> FALSE]

\* No resize request is being handled.  data: the cols and rows of the
\* request; cols, rows: the locals of handle_resize; obj: its local session.
IdleResize ==
    [pc |-> "idle", client |-> NoClient, session_id |-> NoSid, obj |-> None,
     data |-> <<0, 0>>, cols |-> 0, rows |-> 0]

\* pty: the (width, height) given to channel.resize_pty, env: the (COLUMNS,
\* LINES) given to channel.update_environment, <<>> when the call was not
\* made or raised before it sent anything.  log: "info" for the
\* logger.info of line 623, "error" for the logger.error of line 625.
NoCalls == [obj |-> None, pty |-> <<>>, env |-> <<>>, log |-> "none"]

\* A TransferProgress object nobody has constructed yet.  progress is the
\* percentage, kept as a whole number (rounded down).
NoProg ==
    [total_size |-> 0, current_size |-> 0, progress |-> 0, status |-> "none",
     cancelled |-> FALSE, operation |-> "none"]

\* A staging file name nobody has used yet.  transfer: the transfer id of
\* the request that created the file.  content: the bytes of the file.
\* delivered: the chunk index and data of the upload requests handled for
\* the name, in their order (not in the code).
\* The directories staging files are created in: the sftp_uploads
\* directory under tempfile.gettempdir(), and tempfile.gettempdir() itself
StagingDir == "sftp_uploads"
TempDir == "tmp"
Dirs == {StagingDir, TempDir}

NoFile ==
    [exists |-> FALSE, size |-> 0, transfer |-> "none", content |-> <<>>,
     delivered |-> <<>>, dir |-> "none"]

\* No upload request is being handled.  The fields are the locals of
\* upload_file; pushed counts the blocks sftp.putfo has sent.
IdleUpload ==
    [pc |-> "idle", transfer_id |-> "none", chunk_index |-> 0,
     is_last_chunk |-> FALSE, temp_file_id |-> None, temp_file_path |-> None,
     transfer_progress |-> None, pushed |-> 0, content |-> <<>>]

\* No download request is being handled.  The fields are the locals of
\* download_file and of its generator; pulled counts the blocks sftp.getfo
\* has written, streamed the chunks the generator has yielded.
IdleDownload ==
    [pc |-> "idle", transfer_id |-> "none", transfer_progress |-> None,
     temp_file |-> None, file_size |-> 0, pulled |-> 0, current_size |-> 0,
     streamed |-> 0]

\* Nothing was returned by the last step.
\* A task: the handler of a request of a client (one at a time for each
\* client), the read_output thread of a session object, or the exit of the
\* process.  Free: the owner of a lock that nobody holds.
Task(kind, c, o) == [kind |-> kind, client |-> c, obj |-> o]
Free == Task("free", NoClient, 0)
HandlerTask(h) == Task("handler", h, 0)
PumpTask(o) == Task("pump", NoClient, o)
AtexitTask == Task("atexit", NoClient, 0)
IdleHandler == [kind |-> "none", pc |-> "idle", obj |-> 1]

NoSnapshot == [progress |-> 0, transferred |-> 0, total |-> 0, status |-> "none"]
NoResponse ==
    [route |-> "none", transfer_id |-> "none", result |-> "none",
     snapshot |-> NoSnapshot]

Init ==
    /\ connected = Clients
    /\ ssh_sessions = [s \in Sids |-> None]
    /\ client_sessions = <<>>
    /\ objs = [o \in Objs |-> NoObj]
    /\ nextObj = 1
    /\ openReq = [c \in Clients |-> IdleReq]
    /\ emitted = NoEvent
    /\ wrote = NoWrite
    /\ printed = "none"
    /\ phase = "running"
    /\ resizeReq = IdleResize
    /\ resize_calls = NoCalls
    /\ now = 0
    /\ last_activity = [o \in Objs |-> 0]
    /\ progs = [p \in Progs |-> NoProg]
    /\ nextProg = 1
    /\ transfers = [t \in Tids |-> None]
    /\ cancel_flags = [t \in Tids |-> "absent"]
    /\ files = [f \in Names |-> NoFile]
    /\ nextFile = 1
    /\ upReq = IdleUpload
    /\ downReq = IdleDownload
    /\ response = NoResponse
    /\ cancel_acked = {}
    /\ downLink = "none"
    /\ held = {}
    /\ recv_queue = <<>>
    /\ buffer = <<>>
    /\ output = <<>>
    /\ remote_bytes = <<>>
    /\ sessions_lock_owner = Free
    /\ session_lock_owner = [o \in Objs |-> Free]
    /\ handler = [h \in Clients |-> IdleHandler]
    /\ pump = [o \in Objs |-> "none"]
    /\ atexit = [pc |-> "running", next |-> 1]
    /\ delReq = [pc |-> "idle", path |-> None, attempt |-> 0, log |-> <<>>,
                 raised |-> FALSE]

TypeOK ==
    /\ connected \subseteq Clients
    /\ ssh_sessions \in [Sids -> Objs \cup {None}]
    /\ DOMAIN client_sessions \subseteq Clients
    /\ \A c \in DOMAIN client_sessions : client_sessions[c] \subseteq Sids
    /\ nextObj \in 1..(MaxObj + 1)
    /\ \A o \in Objs :
          /\ objs[o].client_id \in Clients \cup {NoClient}
          /\ objs[o].session_id \in Sids \cup {NoSid}
          /\ objs[o].active \in BOOLEAN
          /\ objs[o].channel \in {"none", "open", "closed"}
          /\ objs[o].ssh_client \in {"none", "open", "closed"}
          /\ objs[o].read_thread \in {"none", "loop", "finally", "done"}
          /\ objs[o].closed_events \in 0..2
    /\ \A c \in Clients :
          /\ openReq[c].pc \in {"idle", "connecting", "failed", "sleeping"}
          /\ openReq[c].ssh \in {"none", "connecting", "open", "closed"}
    /\ wrote.obj \in Objs \cup {None}
    /\ printed \in {"none", "closed successfully", "belongs to another client",
                    "not found"}
    /\ phase \in {"running", "exited"}
    /\ resizeReq.pc \in {"idle", "found", "resized"}
    /\ resizeReq.obj \in Objs \cup {None}
    /\ resize_calls.obj \in Objs \cup {None}
    /\ resize_calls.log \in {"none", "info", "error"}
    /\ now \in 0..MaxTime
    /\ \A o \in Objs : last_activity[o] \in 0..now
    /\ nextProg \in 1..(MaxXfer + 1)
    /\ nextFile \in 1..(MaxFile + 1)
    /\ transfers \in [Tids -> Progs \cup {None}]
    /\ \A t \in Tids : cancel_flags[t] \in {"absent", "false", "true"}
    /\ \A p \in Progs :
          /\ progs[p].status \in {"none", "normal", "cancelled", "error"}
          /\ progs[p].current_size >= 0
          /\ progs[p].operation \in {"none", "upload", "download"}
    /\ \A f \in Names : /\ files[f].exists \in BOOLEAN
                        /\ files[f].size = Len(files[f].content)
    /\ upReq.pc \in {"idle", "connecting", "pushing"}
    /\ downReq.pc \in {"idle", "connecting", "pulling", "streaming"}
    /\ cancel_acked \subseteq Tids
    /\ downLink \in {"none", "open", "closed"}
    /\ \A h \in held : /\ h.obj \in Objs \cup {None}
                       /\ h.sessions_lock \in BOOLEAN
                       /\ h.session_lock \in BOOLEAN

----------------------------------------------------------------------------
\* open_ssh

\* handle_ssh_connection up to the blocking connect of create_base_client:
\* paramiko.SSHClient() exists, ssh.connect() is in progress.  The handler
\* never looks at ssh_sessions before it connects.
handle_ssh_connection_begin(c, s) ==
    /\ phase = "running"
    /\ c \in connected
    /\ openReq[c].pc = "idle"
    /\ nextObj <= MaxObj
    /\ openReq' = [openReq EXCEPT ![c] =
                     [pc |-> "connecting", session_id |-> s, obj |-> nextObj,
                      ssh |-> "connecting", present |-> ssh_sessions[s] # None]]
    /\ nextObj' = nextObj + 1
    /\ emitted' = NoEvent
    /\ wrote' = NoWrite
    /\ printed' = "none"
    /\ UNCHANGED <<connected, ssh_sessions, client_sessions, objs, phase>>

\* The kinds of failure handle_ssh_connection tells apart (its three except
\* clauses): ConnectionError, AuthenticationException, any other exception
\* (bad key, missing key path, invoke_shell failure).
ErrKinds == {"network", "auth", "unknown"}

\* create_ssh_client without the ssh.close() of its except clauses
create_ssh_client_leak(ok) == IF ok THEN "open" ELSE "connecting"

\* create_base_client and create_ssh_client: the state of ssh when the call
\* ends.  ok: (ssh, channel) is returned.  Otherwise an exception leaves the
\* call after the except clause has closed ssh.
create_ssh_client(ok) == IF ok THEN "open" ELSE "closed"

\* create_ssh_client raises: its except clause has closed ssh.
handle_ssh_connection_raise(c) ==
    /\ phase = "running"
    /\ openReq[c].pc = "connecting"
    /\ openReq' = [openReq EXCEPT ![c].pc = "failed",
                                  ![c].ssh = create_ssh_client(FALSE)]
    /\ emitted' = NoEvent
    /\ wrote' = NoWrite
    /\ printed' = "none"
    /\ UNCHANGED <<connected, ssh_sessions, client_sessions, objs, nextObj, phase>>

\* One of the three except clauses of handle_ssh_connection, chosen by the
\* class of the exception, emits ssh_error to the requester and returns.
handle_ssh_connection_failed(c, kind) ==
    /\ phase = "running"
    /\ openReq[c].pc = "failed"
    /\ emitted' = Event("ssh_error", c, openReq[c].session_id, kind)
    /\ openReq' = [openReq EXCEPT ![c] = IdleReq]
    /\ wrote' = NoWrite
    /\ printed' = "none"
    /\ UNCHANGED <<connected, ssh_sessions, client_sessions, objs, nextObj, phase>>

\* client_sessions after client_sessions[c].add(s), the key created if absent
AddClientSession(cs, c, s) ==
    [k \in DOMAIN cs \cup {c} |->
        IF k = c THEN (IF c \in DOMAIN cs THEN cs[c] ELSE {}) \cup {s}
        ELSE cs[k]]

\* NewSession without session.client_id = client_id: SSHSession.__init__
\* leaves client_id None
NewSession_unowned(ssh, c, s) ==
    [client_id |-> NoClient, session_id |-> s, active |-> TRUE,
     channel |-> "open", ssh_client |-> ssh, read_thread |-> "loop",
     closed_events |-> 0]

\* SSHSession(ssh, channel, read_thread) with session.client_id = client_id
\* and the thread started by read_thread.start()
NewSession(ssh, c, s) ==
    [client_id |-> c, session_id |-> s, active |-> TRUE,
     channel |-> "open", ssh_client |-> ssh, read_thread |-> "loop",
     closed_events |-> 0]

\* create_ssh_client returns, then without a blocking call in between: the
\* session object, its insertion under sessions_lock, read_thread.start().
\* Whatever was registered under the session id is overwritten.
handle_ssh_connection_register(c) ==
    /\ phase = "running"
    /\ openReq[c].pc = "connecting"
    /\ LET s == openReq[c].session_id
           o == openReq[c].obj
       IN /\ objs' = [objs EXCEPT ![o] = NewSession(create_ssh_client(TRUE), c, s)]
          /\ ssh_sessions' = [ssh_sessions EXCEPT ![s] = o]
          /\ client_sessions' = AddClientSession(client_sessions, c, s)
    /\ openReq' = [openReq EXCEPT ![c].pc = "sleeping", ![c].ssh = "open"]
    /\ emitted' = NoEvent
    /\ wrote' = NoWrite
    /\ printed' = "none"
    /\ UNCHANGED <<connected, nextObj, phase>>

\* After socketio.sleep(0.1): ssh_connected to the requester.
handle_ssh_connection_confirm(c) ==
    /\ phase = "running"
    /\ openReq[c].pc = "sleeping"
    /\ emitted' = Event("ssh_connected", c, openReq[c].session_id, "none")
    /\ openReq' = [openReq EXCEPT ![c] = IdleReq]
    /\ wrote' = NoWrite
    /\ printed' = "none"
    /\ UNCHANGED <<connected, ssh_sessions, client_sessions, objs, nextObj, phase>>

----------------------------------------------------------------------------
\* ssh_input

\* The values of data['input'] the model sends: strings, character by
\* character.
Data == {<<"a">>}

\* channel.send(s): the part of s the call puts on the channel.  send takes
\* what the send window and the packet size leave room for and returns the
\* count; room is that room, at least one byte.
channel_send(s, room) == SubSeq(s, 1, IF Len(s) < room THEN Len(s) ELSE room)

\* The byte read_output sends as a keepalive (the string of one zero byte)
KeepaliveByte == "NUL"

\* What handle_ssh_input hands to channel.send, call by call.
InputWrites(input_data, is_pasted, is_last_line) ==
    IF is_pasted
    THEN IF ~is_last_line THEN <<input_data, <<"\n">> >> ELSE <<input_data>>
    ELSE <<input_data>>

\* "if not session or not session.active" of handle_ssh_input
InputSessionMissing(o) == o = None \/ ~objs[o].active

\* handle_ssh_input without its ownership test
InputNotOwner_skipped(o, c) == FALSE

\* "if session.client_id != client_id" of handle_ssh_input
InputNotOwner(o, c) == objs[o].client_id # c

\* handle_ssh_input: the whole handler runs under sessions_lock.  The value
\* send returns is dropped: what did not fit is not sent again.
handle_ssh_input(c, s, input_data, is_pasted, is_last_line, room) ==
    /\ phase = "running"
    /\ c \in connected
    /\ LET o == ssh_sessions[s]
           w == InputWrites(input_data, is_pasted, is_last_line)
       IN IF InputSessionMissing(o)
          THEN /\ emitted' = Event("ssh_error", c, s, "not_found")
               /\ wrote' = NoWrite
          ELSE IF InputNotOwner(o, c)
          THEN /\ emitted' = Event("ssh_error", c, s, "not_owner")
               /\ wrote' = NoWrite
          ELSE IF objs[o].channel # "open"
          THEN \* channel.send raises; the outer except emits without room=
               /\ emitted' = Event("ssh_error", Broadcast, s, "exception")
               /\ wrote' = NoWrite
          ELSE /\ wrote' = [obj |-> o,
                           data |-> [i \in 1..Len(w) |-> channel_send(w[i], room)]]
               /\ emitted' = NoEvent
    /\ printed' = "none"
    /\ UNCHANGED <<connected, ssh_sessions, client_sessions, objs, nextObj, openReq,
                   phase>>

----------------------------------------------------------------------------
\* close_ssh

\* handle_ssh_close without its ownership test
CloseIsOwner_skipped(o, c) == TRUE

\* "if session.client_id == client_id" of handle_ssh_close
CloseIsOwner(o, c) == objs[o].client_id = c

\* session.active = False, then under session.lock channel.close() and
\* ssh_client.close() in one try whose except clause is "pass".  chan_err:
\* channel.close() raises, which skips ssh_client.close().
CloseHandles(rec, chan_err) ==
    [rec EXCEPT !.active = FALSE,
                !.channel = "closed",
                !.ssh_client = IF chan_err THEN @ ELSE "closed"]

\* handle_ssh_close: the whole handler runs under sessions_lock.
handle_ssh_close(c, s, chan_err) ==
    /\ phase = "running"
    /\ c \in connected
    /\ LET o == ssh_sessions[s]
       IN IF o = None
          THEN /\ printed' = "not found"
               /\ emitted' = NoEvent
               /\ UNCHANGED <<ssh_sessions, client_sessions, objs>>
          ELSE IF ~CloseIsOwner(o, c)
          THEN /\ printed' = "belongs to another client"
               /\ emitted' = NoEvent
               /\ UNCHANGED <<ssh_sessions, client_sessions, objs>>
          ELSE /\ ssh_sessions' = [ssh_sessions EXCEPT ![s] = None]
               /\ IF c \in DOMAIN client_sessions /\ s \notin client_sessions[c]
                  THEN \* set.remove raises KeyError: the outer except emits
                       \* ssh_error, ssh_closed is not emitted
                       /\ objs' = [objs EXCEPT ![o] = CloseHandles(@, chan_err)]
                       /\ client_sessions' = client_sessions
                       /\ emitted' = Event("ssh_error", Broadcast, s, "exception")
                       /\ printed' = "none"
                  ELSE /\ objs' = [objs EXCEPT
                               ![o] = [CloseHandles(@, chan_err) EXCEPT
                                          !.closed_events = @ + 1]]
                       /\ client_sessions' =
                            IF c \in DOMAIN client_sessions
                            THEN [client_sessions EXCEPT ![c] = @ \ {s}]
                            ELSE client_sessions
                       /\ emitted' = Event("ssh_closed", Broadcast, s, "none")
                       /\ printed' = "closed successfully"
    /\ wrote' = NoWrite
    /\ UNCHANGED <<connected, nextObj, openReq, phase>>

----------------------------------------------------------------------------
\* resize

\* The (cols, rows) pairs the model sends in data of a resize event.
ResizeData ==
    {<<0, 0>>, <<79, 23>>, <<80, 24>>, <<120, 40>>, <<500, 200>>, <<501, 201>>,
     <<10000, 10000>>}

\* max(a, b) and min(a, b) of Python, on integers
max(a, b) == IF a >= b THEN a ELSE b
min(a, b) == IF a <= b THEN a ELSE b

\* cols = max(80, min(data.get('cols', 80), 500)) without the upper limit
ClampCols_unbounded(cols) == max(80, cols)

\* cols = max(80, min(data.get('cols', 80), 500))
ClampCols(cols) == max(80, min(cols, 500))

\* rows = max(24, min(data.get('rows', 24), 200))
ClampRows(rows) == max(24, min(rows, 200))

\* str(n) of a non-negative integer: its decimal digits, highest first
DecimalDigit == <<"0", "1", "2", "3", "4", "5", "6", "7", "8", "9">>
RECURSIVE str(_)
str(n) ==
    IF n < 10 THEN <<DecimalDigit[n + 1]>>
    ELSE Append(str(n \div 10), DecimalDigit[(n % 10) + 1])

\* handle_resize takes no lock.  Lines 604-613: the membership test, the
\* two clamps and session = ssh_sessions[session_id], channel =
\* session.channel, with no blocking call in between.  An id that is not
\* registered ends the handler here.  The handler does not look at
\* request.sid: c, the client the request comes from, is only noted with
\* the request.  One resize request is followed at a time.
handle_resize_lookup(c, s, d) ==
    /\ phase = "running"
    /\ c \in connected
    /\ resizeReq.pc = "idle"
    /\ resizeReq' =
          IF ssh_sessions[s] = None
          THEN IdleResize
          ELSE [pc |-> "found", client |-> c, session_id |-> s,
                obj |-> ssh_sessions[s],
                data |-> d, cols |-> ClampCols(d[1]), rows |-> ClampRows(d[2])]
    /\ resize_calls' = NoCalls
    /\ emitted' = NoEvent
    /\ wrote' = NoWrite
    /\ printed' = "none"
    /\ UNCHANGED <<connected, ssh_sessions, client_sessions, objs, nextObj,
                   openReq, phase>>

\* resize_pty and update_environment without the test that the channel is
\* open
ChannelRefuses_never(o) == FALSE

\* Channel.resize_pty and Channel.update_environment raise, before they
\* send anything, on a channel that is not open
ChannelRefuses(o) == objs[o].channel # "open"

\* Line 617: channel.resize_pty(width=cols, height=rows); an exception is
\* logged by the inner except and ends the handler.  No lock is held and
\* the step is apart from the lookup: other tasks may run in between, as
\* they do under any schedule that can switch tasks there.
handle_resize_pty ==
    /\ phase = "running"
    /\ resizeReq.pc = "found"
    /\ IF ChannelRefuses(resizeReq.obj)
       THEN /\ resizeReq' = IdleResize
            /\ resize_calls' = [NoCalls EXCEPT !.log = "error"]
       ELSE /\ resizeReq' = [resizeReq EXCEPT !.pc = "resized"]
            /\ resize_calls' = [obj |-> resizeReq.obj,
                                pty |-> <<resizeReq.cols, resizeReq.rows>>,
                                env |-> <<>>, log |-> "none"]
    /\ emitted' = NoEvent
    /\ wrote' = NoWrite
    /\ printed' = "none"
    /\ UNCHANGED <<connected, ssh_sessions, client_sessions, objs, nextObj,
                   openReq, phase>>

\* Lines 619-622: channel.update_environment({'COLUMNS': str(cols), 'LINES':
\* str(rows)}), which waits for the reply of the remote side and so runs
\* after other tasks may have run.
handle_resize_env ==
    /\ phase = "running"
    /\ resizeReq.pc = "resized"
    /\ resize_calls' =
          IF ChannelRefuses(resizeReq.obj)
          THEN [NoCalls EXCEPT !.log = "error"]
          ELSE [obj |-> resizeReq.obj, pty |-> <<>>,
                env |-> <<str(resizeReq.cols), str(resizeReq.rows)>>,
                log |-> "info"]
    /\ resizeReq' = IdleResize
    /\ emitted' = NoEvent
    /\ wrote' = NoWrite
    /\ printed' = "none"
    /\ UNCHANGED <<connected, ssh_sessions, client_sessions, objs, nextObj,
                   openReq, phase>>

----------------------------------------------------------------------------
\* The client side and the remote side

\* A client's socket.io connection ends.  service.py registers no handler
\* for 'disconnect': nothing of the session state changes.
Disconnect(c) ==
    /\ phase = "running"
    /\ c \in connected
    /\ connected' = connected \ {c}
    /\ emitted' = NoEvent
    /\ wrote' = NoWrite
    /\ printed' = "none"
    /\ UNCHANGED <<ssh_sessions, client_sessions, objs, nextObj, openReq, phase>>

\* The remote side closes the shell channel: channel.closed becomes true.
RemoteClose(o) ==
    /\ phase = "running"
    /\ objs[o].channel = "open"
    /\ objs' = [objs EXCEPT ![o].channel = "closed"]
    /\ emitted' = NoEvent
    /\ wrote' = NoWrite
    /\ printed' = "none"
    /\ UNCHANGED <<connected, ssh_sessions, client_sessions, nextObj, openReq, phase>>

----------------------------------------------------------------------------
\* read_output, one thread per session object

\* The head of the while loop, under sessions_lock: leave unless the session
\* id is registered and the object registered under it is active.
LoopGuardFails(o) ==
    LET cur == ssh_sessions[objs[o].session_id]
    IN cur = None \/ ~objs[cur].active

\* channel.closed or not channel.get_transport() or
\* not channel.get_transport().is_active()
ChannelDown(rec) == rec.channel # "open" \/ rec.ssh_client # "open"

IoOutcomes == {"data", "idle", "keepalive", "error"}

\* One iteration of the while loop, from the guard to the channel check
\* that follows socketio.sleep(0.1).
read_output_iteration(o, outcome) ==
    /\ phase = "running"
    /\ objs[o].read_thread = "loop"
    /\ IF LoopGuardFails(o)
       THEN /\ objs' = [objs EXCEPT ![o].read_thread = "finally"]
            /\ emitted' = NoEvent
            /\ wrote' = NoWrite
       ELSE CASE outcome = "data" ->
              \* recv_ready(), recv(1024), decode, emit ssh_output
              /\ ~ChannelDown(objs[o])
              /\ UNCHANGED objs
              /\ emitted' = Event("ssh_output", Broadcast, objs[o].session_id, "none")
              /\ wrote' = NoWrite
         [] outcome = "idle" ->
              \* nothing to read and no keepalive due
              /\ objs' = [objs EXCEPT ![o].read_thread =
                            IF ChannelDown(objs[o]) THEN "finally" ELSE "loop"]
              /\ emitted' = NoEvent
              /\ wrote' = NoWrite
         [] outcome = "keepalive" ->
              \* more than 60 seconds since last_activity: send the zero byte
              /\ IF objs[o].channel # "open"
                 THEN /\ objs' = [objs EXCEPT ![o].read_thread = "finally"]
                      /\ wrote' = NoWrite
                 ELSE /\ objs' = [objs EXCEPT ![o].read_thread =
                                 IF ChannelDown(objs[o]) THEN "finally" ELSE "loop"]
                      /\ wrote' = [obj |-> o, data |-> << <<KeepaliveByte>> >>]
              /\ emitted' = NoEvent
         [] outcome = "error" ->
              \* an exception other than socket.timeout while reading
              /\ objs' = [objs EXCEPT ![o].read_thread = "finally"]
              /\ emitted' = NoEvent
              /\ wrote' = NoWrite
    /\ printed' = "none"
    /\ UNCHANGED <<connected, ssh_sessions, client_sessions, nextObj, openReq, phase>>

\* The finally clause: under sessions_lock mark whatever is registered under
\* the session id inactive, then emit ssh_closed.
read_output_finally(o) ==
    /\ phase = "running"
    /\ objs[o].read_thread = "finally"
    /\ LET cur == ssh_sessions[objs[o].session_id]
           marked == IF cur = None THEN objs
                     ELSE [objs EXCEPT ![cur].active = FALSE]
       IN objs' = [marked EXCEPT ![o].read_thread = "done",
                                 ![o].closed_events = @ + 1]
    /\ emitted' = Event("ssh_closed", Broadcast, objs[o].session_id, "none")
    /\ wrote' = NoWrite
    /\ printed' = "none"
    /\ UNCHANGED <<connected, ssh_sessions, client_sessions, nextObj, openReq, phase>>

----------------------------------------------------------------------------
\* read_output with its clock

\* time.time() advances by dt seconds; nothing else happens.
Tick(dt) ==
    /\ phase = "running"
    /\ now + dt <= MaxTime
    /\ now' = now + dt
    /\ emitted' = NoEvent
    /\ wrote' = NoWrite
    /\ printed' = "none"
    /\ UNCHANGED <<connected, ssh_sessions, client_sessions, objs, nextObj,
                   openReq, phase, last_activity>>

\* The registering step of an open together with the first statements of
\* the thread it starts: last_activity = time.time() (line 364).
read_output_start(c) ==
    /\ handle_ssh_connection_register(c)
    /\ last_activity' = [last_activity EXCEPT ![openReq[c].obj] = now]
    /\ UNCHANGED now

\* What the channel holds for an iteration: data to read, nothing, or a
\* failure of the read.
ChannelStates == {"ready", "nothing", "error"}

\* The branch an iteration takes: recv_ready() (line 373), else the test of
\* line 399 on the clock.
Branch(o, io) ==
    CASE io = "ready" -> "data"
      [] io = "error" -> "error"
      [] io = "nothing" ->
           IF now - last_activity[o] > KeepaliveAfter THEN "keepalive" ELSE "idle"

\* read_output without "last_activity = current_time" after the keepalive
KeepaliveReset_dropped(last, current_time) == last

\* "last_activity = current_time" of line 402
KeepaliveReset(last, current_time) == current_time

\* One iteration of the while loop with its clock: last_activity is set
\* after an ssh_output (line 392) and after a keepalive that was sent
\* (line 402).
read_output_timed(o, io) ==
    /\ read_output_iteration(o, Branch(o, io))
    /\ last_activity' =
          [last_activity EXCEPT ![o] =
              IF emitted'.event = "ssh_output" THEN now
              ELSE IF wrote' # NoWrite THEN KeepaliveReset(@, now)
              ELSE @]
    /\ UNCHANGED now

----------------------------------------------------------------------------
\* Process exit.  atexit runs its functions last registered first: the
\* cleanup of line 1257, then the cleanup of line 147, with no request
\* handled in between.

Registered == {ssh_sessions[s] : s \in Sids} \ {None}

\* cleanup_session: nothing for a session already marked inactive; else
\* channel.close() and ssh_client.close(), each in a try of its own.
cleanup_session(rec) ==
    IF ~rec.active
    THEN rec
    ELSE [rec EXCEPT !.active = FALSE,
                     !.channel = "closed",
                     !.ssh_client = "closed"]

\* cleanup, second definition: cleanup_session on every registered session.
cleanup_second(os) ==
    [o \in Objs |-> IF o \in Registered THEN cleanup_session(os[o]) ELSE os[o]]

\* The body of the for loop of cleanup, first definition: channel.close() and
\* ssh_client.close() in one try.  chan_err: channel.close() raises.
CleanupHandles(rec, chan_err) ==
    [rec EXCEPT !.channel = "closed",
                !.ssh_client = IF chan_err THEN @ ELSE "closed"]

\* cleanup, first definition.  errs: the sessions whose channel.close() raises.
cleanup_first(os, errs) ==
    [o \in Objs |->
        IF o \in Registered THEN CleanupHandles(os[o], o \in errs) ELSE os[o]]

\* cleanup_temp_files, lines 1299-1307: shutil.rmtree of the sftp_uploads
\* directory; an exception of rmtree is logged and nothing is removed.
\* Files in other directories are not looked at.
cleanup_temp_files(fs, rmtree_ok) ==
    IF ~rmtree_ok THEN fs
    ELSE [f \in DOMAIN fs |-> IF fs[f].dir = StagingDir THEN NoFile ELSE fs[f]]

\* The interpreter exits and runs both functions; the cleanup of line 1257
\* ends with cleanup_temp_files().
atexit_cleanup(errs, rmtree_ok) ==
    /\ phase = "running"
    /\ objs' = cleanup_first(cleanup_second(objs), errs)
    /\ files' = cleanup_temp_files(files, rmtree_ok)
    /\ phase' = "exited"
    /\ emitted' = NoEvent
    /\ wrote' = NoWrite
    /\ printed' = "none"
    /\ UNCHANGED <<connected, ssh_sessions, client_sessions, nextObj, openReq>>

----------------------------------------------------------------------------
\* TransferProgress and TransferManager

\* TransferProgress(total_size, operation)
TransferProgress(total_size, operation) ==
    [total_size |-> total_size, current_size |-> 0, progress |-> 0,
     status |-> "normal", cancelled |-> FALSE, operation |-> operation]

\* TransferProgress.update.  elapsed: time_diff > 0, without which only
\* current_size is set.
update(p, bytes_transferred, elapsed) ==
    [p EXCEPT !.current_size = bytes_transferred,
              !.progress =
                 IF ~elapsed THEN @
                 ELSE IF p.total_size > 0
                      THEN min(100, (bytes_transferred * 100) \div p.total_size)
                      ELSE 0]

\* TransferProgress.cancel
cancel(p) == [p EXCEPT !.status = "cancelled", !.cancelled = TRUE]

\* TransferProgress.is_cancelled, with the mutation that never sees the event
is_cancelled_never(p) == FALSE

is_cancelled(p) == p.cancelled

\* TransferProgress.get_status, the numbers before they are formatted
get_status(p) ==
    [progress |-> p.progress, transferred |-> p.current_size,
     total |-> p.total_size, status |-> p.status]

\* TransferManager.create_transfer: a new object replaces whatever is
\* registered under the id, and the cancel flag of the id is cleared.
create_transfer(transfer_id, total_size, operation) ==
    /\ progs' = [progs EXCEPT ![nextProg] = TransferProgress(total_size, operation)]
    /\ transfers' = [transfers EXCEPT ![transfer_id] = nextProg]
    /\ cancel_flags' = [cancel_flags EXCEPT ![transfer_id] = "false"]
    /\ nextProg' = nextProg + 1
    /\ cancel_acked' = cancel_acked \ {transfer_id}

\* TransferManager.remove_transfer
remove_transfer(transfer_id) ==
    /\ transfers' = [transfers EXCEPT ![transfer_id] = None]
    /\ cancel_flags' = [cancel_flags EXCEPT ![transfer_id] = "absent"]

\* TransferManager.is_cancelled: the flag of the id, False when there is none
manager_is_cancelled(transfer_id) == cancel_flags[transfer_id] = "true"

\* cleanup_temp_file: nothing for no path or a path that does not exist,
\* else os.unlink.  The unlink is taken to succeed within its three tries.
cleanup_temp_file(fs, temp_file_path) ==
    IF temp_file_path = None THEN fs
    ELSE IF ~fs[temp_file_path].exists THEN fs
    ELSE [fs EXCEPT ![temp_file_path] = NoFile]

\* jsonify(...) of a route, without a progress snapshot
Respond(route, transfer_id, result) ==
    [route |-> route, transfer_id |-> transfer_id, result |-> result,
     snapshot |-> NoSnapshot]

\* The declared totalSize of an upload: absent (0) or the size of the file
Totals == {0, MaxBlocks}

\* cancel_transfer, the route, with TransferManager.cancel_transfer
cancel_transfer(transfer_id) ==
    /\ IF transfers[transfer_id] # None
       THEN /\ progs' = [progs EXCEPT ![transfers[transfer_id]] = cancel(@)]
            /\ cancel_flags' = [cancel_flags EXCEPT ![transfer_id] = "true"]
            /\ response' = Respond("cancel_transfer", transfer_id, "success")
            /\ cancel_acked' = cancel_acked \cup {transfer_id}
       ELSE /\ response' = Respond("cancel_transfer", transfer_id, "not_found")
            /\ UNCHANGED <<progs, cancel_flags, cancel_acked>>
    /\ UNCHANGED <<nextProg, transfers, files, nextFile, upReq, downReq, downLink>>

\* get_transfer_progress
get_transfer_progress(transfer_id) ==
    /\ response' =
          IF transfers[transfer_id] # None
          THEN [route |-> "transfer_progress", transfer_id |-> transfer_id,
                result |-> "progress",
                snapshot |-> get_status(progs[transfers[transfer_id]])]
          ELSE Respond("transfer_progress", transfer_id, "not_found")
    /\ UNCHANGED <<progs, nextProg, transfers, cancel_flags, files, nextFile,
                   upReq, downReq, cancel_acked, downLink>>

----------------------------------------------------------------------------
\* upload_file.  One upload request is followed at a time; every chunk
\* carries one block.

\* Lines 847-872: create_transfer for chunk 0, get_transfer for a later
\* chunk, and the early return for a cancelled transfer.  A later chunk
\* carries a tempFileId an earlier answer has given out or a made-up one,
\* which the code does not tell apart, and is sent while
\* the staging file has at most MaxBlocks blocks and at most MaxBlocks
\* chunks were sent for it.  content: the decoded chunk, empty when the
\* request carries none.
upload_file_begin(transfer_id, chunk_index, is_last_chunk, temp_file_id, total_size, content) ==
    /\ upReq.pc = "idle"
    /\ IF chunk_index = 0
       THEN /\ nextProg <= MaxXfer
            /\ temp_file_id = None
            /\ create_transfer(transfer_id, total_size, "upload")
            /\ upReq' = [IdleUpload EXCEPT !.pc = "connecting",
                                           !.transfer_id = transfer_id,
                                           !.chunk_index = chunk_index,
                                           !.is_last_chunk = is_last_chunk,
                                           !.content = content,
                                           !.transfer_progress = nextProg]
            /\ response' = NoResponse
       ELSE /\ temp_file_id \in 1..(nextFile - 1) \/ temp_file_id = ForeignId
            /\ files[temp_file_id].size <= MaxBlocks
            /\ Len(files[temp_file_id].delivered) <= MaxBlocks
            /\ total_size = 0
            /\ LET transfer_progress == transfers[transfer_id]
               IN IF transfer_progress # None /\ is_cancelled(progs[transfer_progress])
                  THEN /\ response' = Respond("upload_file", transfer_id, "cancelled")
                       /\ upReq' = IdleUpload
                  ELSE /\ response' = NoResponse
                       /\ upReq' = [IdleUpload EXCEPT
                                       !.pc = "connecting",
                                       !.transfer_id = transfer_id,
                                       !.chunk_index = chunk_index,
                                       !.is_last_chunk = is_last_chunk,
                                       !.temp_file_id = temp_file_id,
                                       !.content = content,
                                       !.transfer_progress = transfer_progress]
            /\ UNCHANGED <<progs, nextProg, transfers, cancel_flags, cancel_acked>>
    /\ UNCHANGED <<files, nextFile, downReq, downLink>>

\* The staging file after temp_file.write(chunk_data): created by
\* open(..., 'wb') when the path does not exist, else appended to.
AppendBlock(fs, temp_file_path, transfer_id, chunk_data) ==
    [fs EXCEPT ![temp_file_path] =
        IF @.exists
        THEN [@ EXCEPT !.size = @ + Len(chunk_data),
                       !.content = @ \o chunk_data]
        ELSE [@ EXCEPT !.exists = TRUE, !.size = Len(chunk_data),
                       !.content = chunk_data, !.transfer = transfer_id,
                       !.dir = StagingDir]]

\* The request for the chunk is noted under the staging file name
Delivered(fs, temp_file_path, chunk_index, chunk_data) ==
    [fs EXCEPT ![temp_file_path].delivered =
        Append(@, [index |-> chunk_index, data |-> chunk_data])]

\* str(e) of the exceptions of an upload, as the parts of the message.  An
\* OSError of open() ends with the path it was called with.
CancelText == "Transfer cancelled"
CancelledError == <<CancelText>>
ConnectFailed == <<"Unable to connect">>
WriteFailed == <<"[Errno 28] No space left on device">>
PutFailed == <<"Failure">>
PathText(temp_file_path) ==
    IF temp_file_path = ForeignId
    THEN <<"sftp_uploads/", CancelText, "/x">>
    ELSE <<"sftp_uploads/", "uuid">>
OpenFailed(temp_file_path) ==
    <<"[Errno 2] No such file or directory: ">> \o PathText(temp_file_path)

\* '"Transfer cancelled" in str(e)'
Contains(e, text) == \E i \in 1..Len(e) : e[i] = text

\* open() of a staging path works where the directory of the path exists:
\* for the names upload_file makes up itself
Openable(temp_file_path) == temp_file_path \in Files

\* An exception e leaves upload_file: the except of line 951 answers
\* cancelled for a message with the text of a cancellation and re-raises
\* any other to the except of line 956, which calls cleanup_temp_file with
\* the path the request has assigned so far, removes the transfer and
\* answers the error.  fs: the staging files when e is raised.
upload_raise(e, fs, temp_file_path) ==
    /\ IF Contains(e, CancelText)
       THEN /\ files' = fs
            /\ response' = Respond("upload_file", upReq.transfer_id, "cancelled")
            /\ UNCHANGED <<transfers, cancel_flags>>
       ELSE /\ files' = cleanup_temp_file(fs, temp_file_path)
            /\ remove_transfer(upReq.transfer_id)
            /\ response' = Respond("upload_file", upReq.transfer_id, "error")
    /\ upReq' = IdleUpload

UploadOutcomes == {"connect_error", "append_error", "ok"}

\* Lines 874-966 up to sftp.putfo.  connect_error: create_sftp_client
\* raises, with temp_file_path still None.  append_error: the write of the
\* chunk raises.  ok: under "if content", the staging file is opened, which
\* raises for a path that cannot be opened, the chunk is appended, the
\* progress updated from the size of the file and the cancellation tested;
\* a request without content does none of these.
upload_file_connect(outcome, elapsed) ==
    /\ upReq.pc = "connecting"
    /\ LET transfer_id == upReq.transfer_id
           transfer_progress == upReq.transfer_progress
           content == upReq.content
           temp_file_path == IF upReq.chunk_index = 0 THEN nextFile
                             ELSE upReq.temp_file_id
           appended == AppendBlock(files, temp_file_path, transfer_id, content)
       IN CASE outcome = "connect_error" ->
                 /\ upload_raise(ConnectFailed, files, None)
                 /\ UNCHANGED <<progs, nextFile>>
            [] outcome = "append_error" ->
                 /\ content # <<>>
                 /\ Openable(temp_file_path)
                 /\ upReq.chunk_index = 0 => nextFile <= MaxFile
                 /\ nextFile' = IF upReq.chunk_index = 0 THEN nextFile + 1 ELSE nextFile
                 /\ upload_raise(WriteFailed, files, temp_file_path)
                 /\ UNCHANGED progs
            [] outcome = "ok" ->
                 /\ upReq.chunk_index = 0 => nextFile <= MaxFile
                 /\ nextFile' = IF upReq.chunk_index = 0 THEN nextFile + 1 ELSE nextFile
                 /\ IF content # <<>> /\ ~Openable(temp_file_path)
                    THEN /\ upload_raise(OpenFailed(temp_file_path), files,
                                         temp_file_path)
                         /\ UNCHANGED progs
                    ELSE IF /\ content # <<>>
                            /\ transfer_progress # None
                            /\ is_cancelled(progs[transfer_progress])
                    THEN \* raise Exception("Transfer cancelled") of line 904
                         /\ upload_raise(CancelledError,
                                         Delivered(appended, temp_file_path,
                                                   upReq.chunk_index, content),
                                         temp_file_path)
                         /\ progs' = [progs EXCEPT ![transfer_progress] =
                                        update(@, appended[temp_file_path].size,
                                               elapsed)]
                    ELSE /\ files' = Delivered(IF content # <<>> THEN appended
                                               ELSE files,
                                               temp_file_path, upReq.chunk_index,
                                               content)
                         /\ progs' = IF transfer_progress = None \/ content = <<>>
                                     THEN progs
                                     ELSE [progs EXCEPT ![transfer_progress] =
                                             update(@, appended[temp_file_path].size,
                                                    elapsed)]
                         /\ IF upReq.is_last_chunk
                            THEN /\ response' = NoResponse
                                 /\ upReq' = [upReq EXCEPT
                                                !.pc = "pushing",
                                                !.temp_file_path = temp_file_path]
                            ELSE /\ response' = Respond("upload_file", transfer_id,
                                                        "chunk_uploaded")
                                 /\ upReq' = IdleUpload
                         /\ UNCHANGED <<transfers, cancel_flags>>
    /\ UNCHANGED <<nextProg, downReq, cancel_acked, downLink>>

PushOutcomes == {"block", "error"}

\* The finally of line 935, run on every way out of the push:
\* cleanup_temp_file and remove_transfer.
upload_push_finally ==
    /\ files' = cleanup_temp_file(files, upReq.temp_file_path)
    /\ remove_transfer(upReq.transfer_id)
    /\ upReq' = IdleUpload

\* The answer to an exception e raised by the push, after the finally: that
\* of the except of line 951 or that of line 956, whose cleanup_temp_file
\* and remove_transfer find nothing left.
upload_push_raise(e) ==
    /\ upload_push_finally
    /\ response' = Respond("upload_file", upReq.transfer_id,
                           IF Contains(e, CancelText) THEN "cancelled" ELSE "error")

\* open of the staging file and sftp.putfo: open raises for a file that is
\* not there; else one block is sent and progress_callback called with the
\* count so far, or putfo raises.
upload_file_push(outcome, elapsed) ==
    /\ upReq.pc = "pushing"
    /\ LET transfer_id == upReq.transfer_id
           transfer_progress == upReq.transfer_progress
           temp_file_path == upReq.temp_file_path
           transferred == upReq.pushed + 1
       IN IF ~files[temp_file_path].exists
          THEN upload_push_raise(OpenFailed(temp_file_path)) /\ UNCHANGED progs
          ELSE IF outcome = "error"
          THEN upload_push_raise(PutFailed) /\ UNCHANGED progs
          ELSE /\ progs' = IF transfer_progress = None THEN progs
                           ELSE [progs EXCEPT ![transfer_progress] =
                                   update(@, transferred, elapsed)]
               /\ IF transfer_progress # None /\ is_cancelled(progs[transfer_progress])
                  THEN upload_push_raise(CancelledError)
                  ELSE IF transferred >= files[temp_file_path].size
                  THEN /\ upload_push_finally
                       /\ response' = Respond("upload_file", transfer_id, "success")
                  ELSE /\ upReq' = [upReq EXCEPT !.pushed = transferred]
                       /\ response' = NoResponse
                       /\ UNCHANGED <<files, transfers, cancel_flags>>
    /\ UNCHANGED <<nextProg, nextFile, downReq, cancel_acked, downLink>>

----------------------------------------------------------------------------
\* download_file.  One download request is followed at a time.

download_file_begin(transfer_id) ==
    /\ downReq.pc = "idle"
    /\ downReq' = [IdleDownload EXCEPT !.pc = "connecting",
                                       !.transfer_id = transfer_id]
    /\ response' = NoResponse
    /\ downLink' = "none"
    /\ UNCHANGED <<progs, nextProg, transfers, cancel_flags, files, nextFile,
                   upReq, cancel_acked>>

ConnectOutcomes ==
    {"connect_error", "stat_error", "tempfile_error", "unconsumed", "ok"}

\* Lines 1022-1031 and the ways out of them.  connect_error:
\* create_sftp_client raises, having closed what it had opened.  stat_error:
\* sftp.stat raises and the except of line 1093 closes sftp and ssh and
\* removes the transfer of the id.  The other outcomes follow
\* create_transfer with the size of the remote file and the return of the
\* response.  tempfile_error: NamedTemporaryFile raises in the generator
\* with temp_file still None, so that "temp_file.name", the first statement
\* of the finally of line 1077, raises too and the rest of the finally is
\* not run.  unconsumed: the response is closed before its generator was
\* ever started, so that no line of the generator runs.  ok: the generator
\* creates the staging file.
download_file_connect(outcome, file_size) ==
    /\ downReq.pc = "connecting"
    /\ LET transfer_id == downReq.transfer_id
       IN CASE outcome = "connect_error" ->
                 /\ response' = Respond("download_file", transfer_id, "error")
                 /\ downReq' = IdleDownload
                 /\ downLink' = "none"
                 /\ UNCHANGED <<progs, nextProg, transfers, cancel_flags, files,
                                nextFile, cancel_acked>>
            [] outcome = "stat_error" ->
                 /\ remove_transfer(transfer_id)
                 /\ response' = Respond("download_file", transfer_id, "error")
                 /\ downReq' = IdleDownload
                 /\ downLink' = "closed"
                 /\ UNCHANGED <<progs, nextProg, files, nextFile, cancel_acked>>
            [] outcome = "tempfile_error" ->
                 /\ nextProg <= MaxXfer
                 /\ create_transfer(transfer_id, file_size, "download")
                 /\ response' = Respond("download_file", transfer_id, "error")
                 /\ downReq' = IdleDownload
                 /\ downLink' = "open"
                 /\ UNCHANGED <<files, nextFile>>
            [] outcome = "unconsumed" ->
                 /\ nextProg <= MaxXfer
                 /\ create_transfer(transfer_id, file_size, "download")
                 /\ response' = Respond("download_file", transfer_id, "unconsumed")
                 /\ downReq' = IdleDownload
                 /\ downLink' = "open"
                 /\ UNCHANGED <<files, nextFile>>
            [] outcome = "ok" ->
                 /\ nextProg <= MaxXfer
                 /\ nextFile <= MaxFile
                 /\ create_transfer(transfer_id, file_size, "download")
                 /\ files' = [files EXCEPT ![nextFile] =
                                [NoFile EXCEPT !.exists = TRUE,
                                                !.transfer = transfer_id,
                                                !.dir = TempDir]]
                 /\ nextFile' = nextFile + 1
                 /\ downReq' = [downReq EXCEPT !.pc = "pulling",
                                               !.transfer_progress = nextProg,
                                               !.temp_file = nextFile,
                                               !.file_size = file_size]
                 /\ downLink' = "open"
                 /\ response' = NoResponse
    /\ UNCHANGED upReq

\* The finally of line 1077: cleanup_temp_file, remove_transfer, sftp.close
\* and ssh.close.
download_finally ==
    /\ files' = cleanup_temp_file(files, downReq.temp_file)
    /\ remove_transfer(downReq.transfer_id)
    /\ downLink' = "closed"
    /\ downReq' = IdleDownload

\* The generator ends at "Transfer cancelled": yield b'', then the finally.
download_cancelled ==
    /\ download_finally
    /\ response' = Respond("download_file", downReq.transfer_id, "cancelled")

\* A block of the remote file
RemoteBlock == "r"

\* "current_size[0] += transferred" of line 1037.  transferred is what the
\* library hands to the callback: the count of bytes so far.
Accumulate(current_size, transferred) == current_size + transferred

\* sftp.getfo: one block written to the staging file and progress_callback
\* called with the count of bytes so far, or an exception.
download_file_pull(outcome, elapsed) ==
    /\ downReq.pc = "pulling"
    /\ LET transfer_progress == downReq.transfer_progress
           transferred == downReq.pulled + 1
           current_size == Accumulate(downReq.current_size, transferred)
       IN IF is_cancelled(progs[transfer_progress])
          THEN download_cancelled /\ UNCHANGED progs
          ELSE IF outcome = "error"
          THEN \* raise e, then the finally
               /\ download_finally
               /\ response' = Respond("download_file", downReq.transfer_id, "error")
               /\ UNCHANGED progs
          ELSE /\ files' = [files EXCEPT ![downReq.temp_file].size = transferred,
                                          ![downReq.temp_file].content =
                                             Append(@, RemoteBlock)]
               /\ progs' = [progs EXCEPT ![transfer_progress] =
                               update(@, current_size, elapsed)]
               /\ downReq' = [downReq EXCEPT
                                 !.pulled = transferred,
                                 !.current_size = current_size,
                                 !.pc = IF transferred = downReq.file_size
                                        THEN "streaming" ELSE "pulling"]
               /\ response' = NoResponse
               /\ UNCHANGED <<transfers, cancel_flags, downLink>>
    /\ UNCHANGED <<nextProg, nextFile, upReq, cancel_acked>>

StreamOutcomes == {"chunk", "error"}

\* The loop of lines 1062-1070: the cancellation test, then one chunk
\* yielded or, at the end of the file, the finally.  error: f.read raises,
\* or the caller has gone and the generator is closed at its yield; the
\* finally runs.
download_file_stream(outcome) ==
    /\ downReq.pc = "streaming"
    /\ IF is_cancelled(progs[downReq.transfer_progress])
       THEN download_cancelled
       ELSE IF outcome = "error"
       THEN /\ download_finally
            /\ response' = Respond("download_file", downReq.transfer_id, "error")
       ELSE IF downReq.streamed < downReq.file_size
       THEN /\ downReq' = [downReq EXCEPT !.streamed = @ + 1]
            /\ response' = NoResponse
            /\ UNCHANGED <<files, transfers, cancel_flags, downLink>>
       ELSE /\ download_finally
            /\ response' = Respond("download_file", downReq.transfer_id, "success")
    /\ UNCHANGED <<progs, nextProg, nextFile, upReq, cancel_acked>>

----------------------------------------------------------------------------
\* read_output: the buffer and the decoding of what recv returns

\* The bytes of the model: an ASCII byte, the lead byte of a two-byte
\* UTF-8 sequence and a continuation byte (0x61, 0xC3, 0xA9).
Bytes == {"a", "C3", "A9"}

\* The most bytes the remote side writes in a run
MaxBytes == 4

\* bytes.decode('utf-8', errors='ignore'): an ASCII byte gives its
\* character, a lead byte followed by a continuation byte gives the
\* two-byte character, and a byte that is part of no complete sequence (a
\* lead byte with no continuation after it, the end of the input included,
\* or a continuation byte on its own) is left out without an exception.
RECURSIVE decode_ignore(_)
decode_ignore(b) ==
    IF b = <<>> THEN <<>>
    ELSE IF b[1] = "a" THEN <<"a">> \o decode_ignore(Tail(b))
    ELSE IF b[1] = "C3" /\ Len(b) >= 2 /\ b[2] = "A9"
         THEN <<"U+00E9">> \o decode_ignore(Tail(Tail(b)))
    ELSE decode_ignore(Tail(b))

\* The remote side writes one byte to the channel.
remote_write(byte) ==
    /\ Len(remote_bytes) < MaxBytes
    /\ recv_queue' = Append(recv_queue, byte)
    /\ remote_bytes' = Append(remote_bytes, byte)
    /\ UNCHANGED <<buffer, output>>

\* Lines 373-391, recv_ready() true: data = channel.recv(1024) returns the
\* first n bytes that have arrived, buffer.extend(data), text =
\* buffer.decode('utf-8', errors='ignore'), buffer.clear(), emit of text.
\* decode with errors='ignore' raises no UnicodeDecodeError: the except
\* clause of line 393 is never entered.
read_output_recv(n) ==
    /\ n \in 1..Len(recv_queue)
    /\ LET data == SubSeq(recv_queue, 1, n)
           extended == buffer \o data
           text == decode_ignore(extended)
       IN /\ output' = output \o text
          /\ buffer' = <<>>
    /\ recv_queue' = SubSeq(recv_queue, n + 1, Len(recv_queue))
    /\ UNCHANGED remote_bytes

----------------------------------------------------------------------------
\* sessions_lock and SSHSession.lock: which operation runs under which lock

\* What a step does to the session table, to the active flag of a session
\* object or on its channel and connection:
\*   "table"  ssh_sessions is read or changed (obj is None)
\*   "active" session.active is assigned
\*   "send"   channel.send
\*   "resize" channel.resize_pty or channel.update_environment
\*   "close"  channel.close and ssh_client.close
\*   "join"   read_thread.join
OpKinds == {"table", "active", "send", "resize", "close", "join"}

\* One operation with the with-blocks that enclose it in the source:
\* sessions_lock (the module-level lock) and session_lock (the lock field
\* of the SSHSession object the operation is on).
Held(op, o, sessions_lock, session_lock) ==
    [op |-> op, obj |-> o, sessions_lock |-> sessions_lock,
     session_lock |-> session_lock]

\* handle_ssh_connection, lines 476-480: the insertion under sessions_lock.
register_locks == {Held("table", None, TRUE, FALSE)}

\* handle_ssh_input, lines 526-550: the lookup under sessions_lock and,
\* inside that block, the send calls under "with session.lock".
input_locks(c, s) ==
    LET o == ssh_sessions[s]
    IN {Held("table", None, TRUE, FALSE)} \cup
       (IF InputSessionMissing(o) THEN {}
        ELSE IF InputNotOwner(o, c) THEN {}
        ELSE {Held("send", o, TRUE, TRUE)})

\* handle_ssh_close, lines 568-582: everything inside "with sessions_lock";
\* session.active = False at line 572 comes before "with session.lock",
\* which encloses the two close calls only.
close_locks(c, s) ==
    LET o == ssh_sessions[s]
    IN {Held("table", None, TRUE, FALSE)} \cup
       (IF o = None THEN {}
        ELSE IF ~CloseIsOwner(o, c) THEN {}
        ELSE {Held("active", o, TRUE, FALSE), Held("close", o, TRUE, TRUE)})

\* handle_resize, lines 605-613: the membership test and the lookup, in no
\* with-block.
resize_lookup_locks == {Held("table", None, FALSE, FALSE)}

\* handle_resize, lines 617-622: resize_pty and update_environment, in no
\* with-block.
resize_call_locks == {Held("resize", resizeReq.obj, FALSE, FALSE)}

\* read_output, lines 367-401: the guard of the loop under sessions_lock;
\* the keepalive channel.send('\x00') of line 401 in no with-block.
read_output_locks(o, outcome) ==
    {Held("table", None, TRUE, FALSE)} \cup
    (IF ~LoopGuardFails(o) /\ outcome = "keepalive"
     THEN {Held("send", o, FALSE, FALSE)}
     ELSE {})

\* read_output, lines 424-426: the finally clause assigns active under
\* sessions_lock.
finally_locks(o) ==
    LET cur == ssh_sessions[objs[o].session_id]
    IN {Held("table", None, TRUE, FALSE)} \cup
       (IF cur = None THEN {} ELSE {Held("active", cur, TRUE, FALSE)})

\* The two cleanup functions, lines 147-156 and 1264-1297: the loops over
\* ssh_sessions run inside "with sessions_lock"; cleanup_session assigns
\* active, closes and joins the read thread of a session that is active,
\* the first definition closes every session.
cleanup_locks ==
    {Held("table", None, TRUE, FALSE)}
    \cup {Held("close", o, TRUE, FALSE) : o \in Registered}
    \cup {Held("active", o, TRUE, FALSE) : o \in {r \in Registered : objs[r].active}}
    \cup {Held("join", o, TRUE, FALSE) :
            o \in {r \in Registered : /\ objs[r].active
                                      /\ objs[r].read_thread \in {"loop", "finally"}}}

----------------------------------------------------------------------------
\* The tasks and the two kinds of lock, acquisition by acquisition.  What a
\* lookup finds is left open here: a handler may meet any session object.

\* The handlers that take sessions_lock: open_ssh (line 476), ssh_input
\* (line 526), close_ssh (line 568).  handle_resize takes no lock.
HandlerKinds == {"open", "input", "close"}

\* A request arrives: the handler comes to its "with sessions_lock".  o:
\* the session object the lookup will find; the insertion of open_ssh looks
\* none up.
handler_call(h, kind, o) ==
    /\ handler[h].pc = "idle"
    /\ kind = "open" => o = 1
    /\ handler' = [handler EXCEPT ![h] =
                     [kind |-> kind, pc |-> "want_sessions_lock", obj |-> o]]
    /\ UNCHANGED <<sessions_lock_owner, session_lock_owner, pump, atexit>>

\* "with sessions_lock:" is entered once the lock is free (threading.Lock:
\* not reentrant).
handler_enter(h) ==
    /\ handler[h].pc = "want_sessions_lock"
    /\ sessions_lock_owner = Free
    /\ sessions_lock_owner' = HandlerTask(h)
    /\ handler' = [handler EXCEPT ![h].pc = "table"]
    /\ UNCHANGED <<session_lock_owner, pump, atexit>>

\* The with-block is left with session.lock never taken: the insertion of
\* handle_ssh_connection is done (lines 477-480), or the lookup of
\* handle_ssh_input (lines 527-539) or of handle_ssh_close (lines 569-571,
\* 589-592) ends the handler.
handler_leave(h) ==
    /\ handler[h].pc = "table"
    /\ sessions_lock_owner' = Free
    /\ handler' = [handler EXCEPT ![h] = IdleHandler]
    /\ UNCHANGED <<session_lock_owner, pump, atexit>>

\* handle_ssh_input (line 541) and handle_ssh_close (line 573) come to
\* "with session.lock:", inside "with sessions_lock:".
handler_found(h) ==
    /\ handler[h].pc = "table"
    /\ handler[h].kind \in {"input", "close"}
    /\ handler' = [handler EXCEPT ![h].pc = "want_session_lock"]
    /\ UNCHANGED <<sessions_lock_owner, session_lock_owner, pump, atexit>>

\* "with session.lock:" is entered once the lock of the session is free.
handler_lock_session(h) ==
    /\ handler[h].pc = "want_session_lock"
    /\ session_lock_owner[handler[h].obj] = Free
    /\ session_lock_owner' =
          [session_lock_owner EXCEPT ![handler[h].obj] = HandlerTask(h)]
    /\ handler' = [handler EXCEPT ![h].pc = "locked"]
    /\ UNCHANGED <<sessions_lock_owner, pump, atexit>>

\* The body of "with session.lock:" ends, by its last statement or by an
\* exception: the send calls of lines 544-550 on a channel set non-blocking
\* (line 322), or the close calls of lines 575-576.
handler_unlock_session(h) ==
    /\ handler[h].pc = "locked"
    /\ session_lock_owner' = [session_lock_owner EXCEPT ![handler[h].obj] = Free]
    /\ handler' = [handler EXCEPT ![h].pc = "unlocked"]
    /\ UNCHANGED <<sessions_lock_owner, pump, atexit>>

\* The rest of "with sessions_lock:" and its end.
handler_exit(h) ==
    /\ handler[h].pc = "unlocked"
    /\ sessions_lock_owner' = Free
    /\ handler' = [handler EXCEPT ![h] = IdleHandler]
    /\ UNCHANGED <<session_lock_owner, pump, atexit>>

\* read_thread.start() (line 483): the thread is at the head of its loop.
pump_start(o) ==
    /\ pump[o] = "none"
    /\ pump' = [pump EXCEPT ![o] = "loop"]
    /\ UNCHANGED <<sessions_lock_owner, session_lock_owner, handler, atexit>>

\* The head of the loop, line 368: "with sessions_lock:".
pump_guard_enter(o) ==
    /\ pump[o] = "loop"
    /\ sessions_lock_owner = Free
    /\ sessions_lock_owner' = PumpTask(o)
    /\ pump' = [pump EXCEPT ![o] = "guard"]
    /\ UNCHANGED <<session_lock_owner, handler, atexit>>

\* Lines 369-419: the guard and the end of the with-block, then under no
\* lock recv, keepalive, sleep and the channel test.  stays: no break, the
\* thread is back at the head of the loop.
pump_guard_leave(o, stays) ==
    /\ pump[o] = "guard"
    /\ sessions_lock_owner' = Free
    /\ pump' = [pump EXCEPT ![o] = IF stays THEN "loop" ELSE "want_finally"]
    /\ UNCHANGED <<session_lock_owner, handler, atexit>>

\* The finally clause, line 424: "with sessions_lock:".
pump_finally_enter(o) ==
    /\ pump[o] = "want_finally"
    /\ sessions_lock_owner = Free
    /\ sessions_lock_owner' = PumpTask(o)
    /\ pump' = [pump EXCEPT ![o] = "finally"]
    /\ UNCHANGED <<session_lock_owner, handler, atexit>>

\* Lines 425-430: the end of the with-block, the emit, the end of the
\* thread.
pump_finally_leave(o) ==
    /\ pump[o] = "finally"
    /\ sessions_lock_owner' = Free
    /\ pump' = [pump EXCEPT ![o] = "done"]
    /\ UNCHANGED <<session_lock_owner, handler, atexit>>

\* read_thread.is_alive()
is_alive(o) == pump[o] \notin {"none", "done"}

\* read_thread.join() with no timeout: returns when the thread has ended
JoinReturns_untimed(alive) == ~alive

\* read_thread.join(timeout=1) (line 1295): returns after a second at most,
\* whether or not the thread has ended
JoinReturns(alive) == TRUE

\* The interpreter exits: cleanup of line 1257 comes to its "with
\* sessions_lock" (line 1264).
atexit_begin ==
    /\ atexit.pc = "running"
    /\ atexit' = [atexit EXCEPT !.pc = "want_cleanup"]
    /\ UNCHANGED <<sessions_lock_owner, session_lock_owner, handler, pump>>

atexit_enter ==
    /\ atexit.pc = "want_cleanup"
    /\ sessions_lock_owner = Free
    /\ sessions_lock_owner' = AtexitTask
    /\ atexit' = [pc |-> "cleanup", next |-> 1]
    /\ UNCHANGED <<session_lock_owner, handler, pump>>

\* cleanup_session of the next session of the loop (lines 1278-1297), the
\* join of line 1295 at its end; it takes no session.lock.
atexit_cleanup_session ==
    /\ atexit.pc = "cleanup"
    /\ atexit.next \in Objs
    /\ JoinReturns(is_alive(atexit.next))
    /\ atexit' = [atexit EXCEPT !.next = @ + 1]
    /\ UNCHANGED <<sessions_lock_owner, session_lock_owner, handler, pump>>

\* The loop is over: the with-block ends; cleanup of line 147 comes to its
\* "with sessions_lock" (line 149).
atexit_leave ==
    /\ atexit.pc = "cleanup"
    /\ atexit.next \notin Objs
    /\ sessions_lock_owner' = Free
    /\ atexit' = [pc |-> "want_cleanup_first", next |-> 1]
    /\ UNCHANGED <<session_lock_owner, handler, pump>>

atexit_enter_first ==
    /\ atexit.pc = "want_cleanup_first"
    /\ sessions_lock_owner = Free
    /\ sessions_lock_owner' = AtexitTask
    /\ atexit' = [atexit EXCEPT !.pc = "cleanup_first"]
    /\ UNCHANGED <<session_lock_owner, handler, pump>>

\* Lines 150-156: the close calls of every session, then the end of the
\* with-block.
atexit_leave_first ==
    /\ atexit.pc = "cleanup_first"
    /\ sessions_lock_owner' = Free
    /\ atexit' = [atexit EXCEPT !.pc = "exited"]
    /\ UNCHANGED <<session_lock_owner, handler, pump>>

----------------------------------------------------------------------------
\* cleanup_temp_file, attempt by attempt

\* max_retries = 3
max_retries == 3

\* What an os.unlink(temp_file_path) call does: it deletes the file, or it
\* raises PermissionError (the file is held), FileNotFoundError, or another
\* OSError (the path is a directory, the file system is read-only)
UnlinkOutcomes == {"deleted", "PermissionError", "FileNotFoundError", "OSError"}

IdleDelete ==
    [pc |-> "idle", path |-> None, attempt |-> 0, log |-> <<>>, raised |-> FALSE]

\* A staging file comes to be on disk: NamedTemporaryFile of download_file,
\* open(temp_file_path, 'wb') of upload_file, or a file of that name
\* written by anything else.
tempfile_created(f, dir) ==
    /\ delReq.pc = "idle"
    /\ ~files[f].exists
    /\ files' = [files EXCEPT ![f].exists = TRUE, ![f].dir = dir]
    /\ UNCHANGED delReq

\* Lines 970-974: the call returns at once for no path and for a path that
\* does not exist, else it enters the loop with attempt = 0.
cleanup_temp_file_call(temp_file_path) ==
    /\ delReq.pc = "idle"
    /\ delReq' =
          IF temp_file_path = None THEN IdleDelete
          ELSE IF ~files[temp_file_path].exists THEN IdleDelete
          ELSE [IdleDelete EXCEPT !.pc = "loop", !.path = temp_file_path]
    /\ UNCHANGED files

\* The except clauses with every failed attempt tried again
RetryAfter_any(outcome, attempt) ==
    outcome # "deleted" /\ attempt < max_retries - 1

\* "except PermissionError: if attempt < max_retries - 1: ... continue"
RetryAfter(outcome, attempt) ==
    outcome = "PermissionError" /\ attempt < max_retries - 1

\* The except clauses of the loop: PermissionError, FileNotFoundError and
\* Exception between them catch whatever os.unlink raises
Caught(outcome) ==
    outcome \in {"PermissionError", "FileNotFoundError", "OSError"}

\* One pass of "for attempt in range(max_retries)", lines 976-1008: the
\* open in append mode inside its own try with a bare except, os.unlink,
\* and the except clause its outcome selects.  After the pass of the last
\* attempt the loop is over whatever the outcome.
cleanup_temp_file_attempt(outcome) ==
    /\ delReq.pc = "loop"
    /\ outcome = "deleted" => files[delReq.path].exists
    /\ files' = IF outcome \in {"deleted", "FileNotFoundError"}
                THEN [files EXCEPT ![delReq.path] = NoFile]
                ELSE files
    /\ delReq' =
          IF outcome # "deleted" /\ ~Caught(outcome)
          THEN [delReq EXCEPT !.pc = "idle", !.raised = TRUE,
                              !.log = Append(@, outcome)]
          ELSE IF RetryAfter(outcome, delReq.attempt)
          THEN [delReq EXCEPT !.attempt = @ + 1, !.log = Append(@, outcome)]
          ELSE [delReq EXCEPT !.pc = "idle", !.log = Append(@, outcome)]

----------------------------------------------------------------------------
\* A step in which no resize handler moves
NoResizeStep == resizeReq' = resizeReq /\ resize_calls' = NoCalls

\* A step of the session engine with the clock left aside
LockedSessionStep ==
    NoResizeStep
    /\ UNCHANGED <<clockVars, transferVars, decodeVars, mutexVars, delReq>>

\* A step of the session engine, the clock and the locks left aside
SessionStep == LockedSessionStep /\ UNCHANGED lockVars

\* What the transfer routes keep, the staging files left aside
routeVars == <<progs, nextProg, transfers, cancel_flags, nextFile, upReq,
               downReq, response, cancel_acked, downLink>>

\* The step of the exit of the process, which sweeps staging files
LockedExitStep ==
    NoResizeStep
    /\ UNCHANGED <<clockVars, routeVars, decodeVars, mutexVars, delReq>>

ExitStep == LockedExitStep /\ UNCHANGED lockVars

\* A step of handle_resize
LockedResizeStep ==
    UNCHANGED <<clockVars, transferVars, decodeVars, mutexVars, delReq>>

\* A step of handle_resize, the locks left aside
ResizeStep == LockedResizeStep /\ UNCHANGED lockVars

\* A step of the session engine or of a read_output thread, with the clock
PumpStep ==
    NoResizeStep
    /\ UNCHANGED <<transferVars, lockVars, decodeVars, mutexVars, delReq>>

\* A step of a transfer route
TransferStep ==
    UNCHANGED <<sessionVars, resizeVars, clockVars, lockVars, decodeVars,
                mutexVars, delReq>>

Next ==
    \/ (\E c \in Clients, s \in Sids : handle_ssh_connection_begin(c, s))
          /\ SessionStep
    \/ (\E c \in Clients : handle_ssh_connection_raise(c)) /\ SessionStep
    \/ (\E c \in Clients, k \in ErrKinds : handle_ssh_connection_failed(c, k))
          /\ SessionStep
    \/ (\E c \in Clients : handle_ssh_connection_register(c)) /\ SessionStep
    \/ (\E c \in Clients : handle_ssh_connection_confirm(c)) /\ SessionStep
    \/ (\E c \in Clients, s \in Sids, d \in Data, p \in BOOLEAN, l \in BOOLEAN :
          handle_ssh_input(c, s, d, p, l, 1)) /\ SessionStep
    \/ (\E c \in Clients, s \in Sids, e \in BOOLEAN : handle_ssh_close(c, s, e))
          /\ SessionStep
    \/ (\E c \in Clients : Disconnect(c)) /\ SessionStep
    \/ (\E o \in Objs : RemoteClose(o)) /\ SessionStep
    \/ (\E o \in Objs, r \in IoOutcomes : read_output_iteration(o, r))
          /\ SessionStep
    \/ (\E o \in Objs : read_output_finally(o)) /\ SessionStep
    \/ (\E errs \in SUBSET Registered, ok \in BOOLEAN : atexit_cleanup(errs, ok))
          /\ ExitStep

Spec == Init /\ [][Next]_vars

\* A step of the read_output thread of session object o
PumpRuns(o) ==
    \/ (\E r \in IoOutcomes : read_output_iteration(o, r)) /\ SessionStep
    \/ read_output_finally(o) /\ SessionStep

\* Spec with every read_output thread scheduled again and again: a thread
\* that can take a step is not left waiting for ever (socketio.sleep(0.1)
\* hands control back every iteration).
SpecFair == Spec /\ \A o \in Objs : WF_vars(PumpRuns(o))

\* The inputs of ssh_input for the properties about what reaches the
\* channel, and the most room a send call may find
LongData == {<<"a">>, <<"a", "b">>}
MaxPacket == 2

\* Open, input and close of sessions, the remote side closing a channel.
\* The read_output threads and the exit of the process are left to Spec.
NextInput ==
    \/ (\E c \in Clients, s \in Sids : handle_ssh_connection_begin(c, s))
          /\ SessionStep
    \/ (\E c \in Clients : handle_ssh_connection_register(c)) /\ SessionStep
    \/ (\E c \in Clients : handle_ssh_connection_confirm(c)) /\ SessionStep
    \/ (\E c \in Clients, s \in Sids, d \in LongData, p \in BOOLEAN,
            l \in BOOLEAN, room \in 1..MaxPacket :
          handle_ssh_input(c, s, d, p, l, room)) /\ SessionStep
    \/ (\E c \in Clients, s \in Sids, e \in BOOLEAN : handle_ssh_close(c, s, e))
          /\ SessionStep
    \/ (\E o \in Objs : RemoteClose(o)) /\ SessionStep

SpecInput == Init /\ [][NextInput]_vars

\* Open, resize and close of sessions, the remote side closing a channel.
NextResize ==
    \/ (\E c \in Clients, s \in Sids : handle_ssh_connection_begin(c, s))
          /\ SessionStep
    \/ (\E c \in Clients : handle_ssh_connection_register(c)) /\ SessionStep
    \/ (\E c \in Clients : handle_ssh_connection_confirm(c)) /\ SessionStep
    \/ (\E c \in Clients, s \in Sids, e \in BOOLEAN : handle_ssh_close(c, s, e))
          /\ SessionStep
    \/ (\E o \in Objs : RemoteClose(o)) /\ SessionStep
    \/ (\E c \in Clients, s \in Sids, d \in ResizeData :
          handle_resize_lookup(c, s, d))
          /\ ResizeStep
    \/ handle_resize_pty /\ ResizeStep
    \/ handle_resize_env /\ ResizeStep

SpecResize == Init /\ [][NextResize]_vars

\* One session and its read_output thread over time: the first open of a
\* run, close, the remote side closing the channel, the iterations of the
\* thread, the clock.
NextPump ==
    \/ (\E c \in Clients, s \in Sids :
            nextObj = 1 /\ handle_ssh_connection_begin(c, s)) /\ SessionStep
    \/ (\E c \in Clients : read_output_start(c)) /\ PumpStep
    \/ (\E c \in Clients : handle_ssh_connection_confirm(c)) /\ SessionStep
    \/ (\E c \in Clients, s \in Sids, e \in BOOLEAN : handle_ssh_close(c, s, e))
          /\ SessionStep
    \/ (\E o \in Objs : RemoteClose(o)) /\ SessionStep
    \/ (\E dt \in Ticks : Tick(dt)) /\ PumpStep
    \/ (\E o \in Objs, io \in ChannelStates : read_output_timed(o, io))
          /\ PumpStep
    \/ (\E o \in Objs : read_output_finally(o)) /\ SessionStep

SpecPump == Init /\ [][NextPump]_vars

\* The transfer id of the specifications that follow one transfer id
OneTid == {"t1"}

\* The chunk of the uploads of SpecUpload: one block
OneBlock == <<"x">>

\* Uploads in chunks, with cancellation and the progress query.
NextUpload ==
    \/ (\E t \in OneTid, i \in 0..1, l \in BOOLEAN, f \in Names \cup {None},
          n \in Totals : upload_file_begin(t, i, l, f, n, OneBlock)) /\ TransferStep
    \/ (\E r \in UploadOutcomes, e \in BOOLEAN : upload_file_connect(r, e))
          /\ TransferStep
    \/ (\E r \in PushOutcomes, e \in BOOLEAN : upload_file_push(r, e))
          /\ TransferStep
    \/ (\E t \in OneTid : cancel_transfer(t)) /\ TransferStep
    \/ (\E t \in OneTid : get_transfer_progress(t)) /\ TransferStep

SpecUpload == Init /\ [][NextUpload]_vars

\* The chunks of the uploads of SpecChunks: none, or one byte of two kinds;
\* the chunk indices go up to MaxChunk.
ChunkData == {<<>>, <<"a">>, <<"b">>}
MaxChunk == 2

\* One upload, its chunks sent in any order, re-sent chunks included: chunk
\* 0 is the first request, once.
NextChunks ==
    \/ (\E t \in OneTid, i \in 0..MaxChunk, l \in BOOLEAN, f \in Files \cup {None},
          d \in ChunkData :
             (i = 0 => nextProg = 1) /\ upload_file_begin(t, i, l, f, 0, d))
          /\ TransferStep
    \/ (\E r \in UploadOutcomes, e \in BOOLEAN : upload_file_connect(r, e))
          /\ TransferStep
    \/ (\E r \in PushOutcomes, e \in BOOLEAN : upload_file_push(r, e))
          /\ TransferStep

SpecChunks == Init /\ [][NextChunks]_vars

\* Downloads, with cancellation and the progress query.
NextDownload ==
    \/ (\E t \in OneTid : download_file_begin(t)) /\ TransferStep
    \/ (\E r \in ConnectOutcomes, n \in 1..MaxBlocks : download_file_connect(r, n))
          /\ TransferStep
    \/ (\E r \in PushOutcomes, e \in BOOLEAN : download_file_pull(r, e))
          /\ TransferStep
    \/ (\E r \in StreamOutcomes : download_file_stream(r)) /\ TransferStep
    \/ (\E t \in OneTid : cancel_transfer(t)) /\ TransferStep
    \/ (\E t \in OneTid : get_transfer_progress(t)) /\ TransferStep

SpecDownload == Init /\ [][NextDownload]_vars

\* Uploads of two transfer ids: first chunks, and later chunks that name
\* any staging file on disk.
NextOwners ==
    \/ (\E t \in Tids, i \in 0..1, l \in BOOLEAN, f \in Files \cup {None} :
          upload_file_begin(t, i, l, f, 0, OneBlock)) /\ TransferStep
    \/ (\E r \in UploadOutcomes : upload_file_connect(r, FALSE)) /\ TransferStep
    \/ (\E r \in PushOutcomes : upload_file_push(r, FALSE)) /\ TransferStep

SpecOwners == Init /\ [][NextOwners]_vars

\* Uploads and downloads up to the exit of the process, and the exit.  The
\* later chunks of an upload name a file of the sftp_uploads directory.
NextSweep ==
    \/ (\E t \in OneTid, i \in 0..1, l \in BOOLEAN, f \in Files \cup {None} :
          /\ phase = "running"
          /\ f # None => files[f].dir # TempDir
          /\ upload_file_begin(t, i, l, f, 0, OneBlock))
          /\ TransferStep
    \/ (\E r \in UploadOutcomes :
          phase = "running" /\ upload_file_connect(r, FALSE)) /\ TransferStep
    \/ (\E r \in PushOutcomes :
          phase = "running" /\ upload_file_push(r, FALSE)) /\ TransferStep
    \/ (\E t \in OneTid : phase = "running" /\ download_file_begin(t))
          /\ TransferStep
    \/ (\E r \in ConnectOutcomes :
          phase = "running" /\ download_file_connect(r, 1)) /\ TransferStep
    \/ (\E r \in PushOutcomes :
          phase = "running" /\ download_file_pull(r, FALSE)) /\ TransferStep
    \/ (\E r \in StreamOutcomes :
          phase = "running" /\ download_file_stream(r)) /\ TransferStep
    \/ (\E errs \in SUBSET Registered, ok \in BOOLEAN : atexit_cleanup(errs, ok))
          /\ ExitStep

SpecSweep == Init /\ [][NextSweep]_vars

\* Sessions with the locks their operations run under: open, input, close,
\* resize, the read_output threads, the remote side closing a channel, the
\* exit of the process.  LockResize: the (cols, rows) pair of its resize
\* events.
LockResize == <<100, 30>>

NextLocks ==
    \/ (\E c \in Clients, s \in Sids : handle_ssh_connection_begin(c, s))
          /\ held' = {} /\ LockedSessionStep
    \/ (\E c \in Clients : handle_ssh_connection_register(c))
          /\ held' = register_locks /\ LockedSessionStep
    \/ (\E c \in Clients : handle_ssh_connection_confirm(c))
          /\ held' = {} /\ LockedSessionStep
    \/ (\E c \in Clients, s \in Sids, d \in Data :
          handle_ssh_input(c, s, d, FALSE, FALSE, 1) /\ held' = input_locks(c, s))
          /\ LockedSessionStep
    \/ (\E c \in Clients, s \in Sids, e \in BOOLEAN :
          handle_ssh_close(c, s, e) /\ held' = close_locks(c, s))
          /\ LockedSessionStep
    \/ (\E o \in Objs : RemoteClose(o)) /\ held' = {} /\ LockedSessionStep
    \/ (\E c \in Clients, s \in Sids : handle_resize_lookup(c, s, LockResize))
          /\ held' = resize_lookup_locks /\ LockedResizeStep
    \/ handle_resize_pty /\ held' = resize_call_locks /\ LockedResizeStep
    \/ handle_resize_env /\ held' = resize_call_locks /\ LockedResizeStep
    \/ (\E o \in Objs, r \in IoOutcomes :
          read_output_iteration(o, r) /\ held' = read_output_locks(o, r))
          /\ LockedSessionStep
    \/ (\E o \in Objs : read_output_finally(o) /\ held' = finally_locks(o))
          /\ LockedSessionStep
    \/ (\E errs \in SUBSET Registered, ok \in BOOLEAN : atexit_cleanup(errs, ok))
          /\ held' = cleanup_locks /\ LockedExitStep

SpecLocks == Init /\ [][NextLocks]_vars

\* A step of the decoding of read_output
DecodeStep ==
    UNCHANGED <<sessionVars, resizeVars, clockVars, transferVars, lockVars,
                mutexVars, delReq>>

\* One channel: the remote side writes bytes, read_output receives them in
\* pieces of any size.
NextDecode ==
    \/ (\E byte \in Bytes : remote_write(byte)) /\ DecodeStep
    \/ (\E n \in 1..MaxBytes : read_output_recv(n)) /\ DecodeStep

SpecDecode == Init /\ [][NextDecode]_vars

\* A step of a task at its locks
MutexStep ==
    UNCHANGED <<sessionVars, resizeVars, clockVars, transferVars, lockVars,
                decodeVars, delReq>>

\* The steps of a handler once it was called, of a read_output thread once
\* it was started, and of the exit once it began
HandlerProgress(h) ==
    (\/ handler_enter(h) \/ handler_leave(h) \/ handler_found(h)
     \/ handler_lock_session(h) \/ handler_unlock_session(h) \/ handler_exit(h))
    /\ MutexStep

PumpProgress(o) ==
    (\/ pump_guard_enter(o)
     \/ (\E stays \in BOOLEAN : pump_guard_leave(o, stays))
     \/ pump_finally_enter(o) \/ pump_finally_leave(o))
    /\ MutexStep

AtexitProgress ==
    (\/ atexit_enter \/ atexit_cleanup_session \/ atexit_leave
     \/ atexit_enter_first \/ atexit_leave_first)
    /\ MutexStep

NextMutex ==
    \/ (\E h \in Clients, k \in HandlerKinds, o \in Objs : handler_call(h, k, o))
          /\ MutexStep
    \/ (\E h \in Clients : handler_enter(h)) /\ MutexStep
    \/ (\E h \in Clients : handler_leave(h)) /\ MutexStep
    \/ (\E h \in Clients : handler_found(h)) /\ MutexStep
    \/ (\E h \in Clients : handler_lock_session(h)) /\ MutexStep
    \/ (\E h \in Clients : handler_unlock_session(h)) /\ MutexStep
    \/ (\E h \in Clients : handler_exit(h)) /\ MutexStep
    \/ (\E o \in Objs : pump_start(o)) /\ MutexStep
    \/ (\E o \in Objs : pump_guard_enter(o)) /\ MutexStep
    \/ (\E o \in Objs, stays \in BOOLEAN : pump_guard_leave(o, stays)) /\ MutexStep
    \/ (\E o \in Objs : pump_finally_enter(o)) /\ MutexStep
    \/ (\E o \in Objs : pump_finally_leave(o)) /\ MutexStep
    \/ atexit_begin /\ MutexStep
    \/ atexit_enter /\ MutexStep
    \/ atexit_cleanup_session /\ MutexStep
    \/ atexit_leave /\ MutexStep
    \/ atexit_enter_first /\ MutexStep
    \/ atexit_leave_first /\ MutexStep

\* Every task that can take a step is scheduled in the end: the tasks are
\* greenlets and threads of one process, none is suspended for ever.
SpecMutex ==
    /\ Init /\ [][NextMutex]_vars
    /\ \A h \in Clients : WF_vars(HandlerProgress(h))
    /\ \A o \in Objs : WF_vars(PumpProgress(o))
    /\ WF_vars(AtexitProgress)

\* A step of cleanup_temp_file or of a staging file coming to be
CleanupStep ==
    UNCHANGED <<sessionVars, resizeVars, clockVars, lockVars, decodeVars,
                mutexVars, routeVars>>

\* The passes of the loop of cleanup_temp_file
CleanupProgress ==
    (\E r \in UnlinkOutcomes : cleanup_temp_file_attempt(r)) /\ CleanupStep

NextCleanup ==
    \/ (\E f \in Names, d \in Dirs : tempfile_created(f, d)) /\ CleanupStep
    \/ (\E f \in Names \cup {None} : cleanup_temp_file_call(f)) /\ CleanupStep
    \/ (\E r \in UnlinkOutcomes : cleanup_temp_file_attempt(r)) /\ CleanupStep

\* Staging files and the calls of cleanup_temp_file, one at a time; a call
\* under way goes on (os.unlink and time.sleep(0.5) return).
SpecCleanup == Init /\ [][NextCleanup]_vars /\ WF_vars(CleanupProgress)

----------------------------------------------------------------------------
\* Properties

OwnerOf(s) == objs[ssh_sessions[s]].client_id

InputStep(c, s) ==
    \E d \in Data, p \in BOOLEAN, l \in BOOLEAN : handle_ssh_input(c, s, d, p, l, 1)

CloseStep(c, s) == \E e \in BOOLEAN : handle_ssh_close(c, s, e)

\* C1: only the owner of a session can send input to it or close it; a
\* close request by another client closes nothing and that client receives
\* a not-owner error.
C1_OnlyOwnerActs ==
    [][\A c \in Clients, s \in Sids :
         /\ (InputStep(c, s) /\ wrote'.obj # None) =>
               (ssh_sessions[s] # None /\ OwnerOf(s) = c)
         /\ (CloseStep(c, s) /\ ssh_sessions[s] # None) =>
               IF OwnerOf(s) = c
               THEN ssh_sessions'[s] = None
               ELSE /\ ssh_sessions'[s] = ssh_sessions[s]
                    /\ emitted' = Event("ssh_error", c, s, "not_owner")]_vars

\* C2: an input request for a session that is not registered, is not
\* active or is owned by another client ends with an ssh_error sent to the
\* caller and writes to no channel.
C2_InputRejected ==
    [][\A c \in Clients, s \in Sids :
         (/\ InputStep(c, s)
          /\ \/ ssh_sessions[s] = None
             \/ ~objs[ssh_sessions[s]].active
             \/ OwnerOf(s) # c)
         => /\ emitted'.event = "ssh_error"
            /\ emitted'.room = c
            /\ emitted'.session_id = s
            /\ wrote' = NoWrite
            /\ UNCHANGED objs]_vars

\* An input of a client on a session of another client has been answered
\* with the not-owner error.
C2_Witness ==
    \E c \in Clients, s \in Sids :
        /\ emitted = Event("ssh_error", c, s, "not_owner")
        /\ ssh_sessions[s] # None
        /\ objs[ssh_sessions[s]].active
        /\ OwnerOf(s) # c
        /\ wrote = NoWrite

\* C3: an open request for a session id that is registered when the request
\* arrives, and still is when the connection is up, replaces nothing: the
\* entry and the object registered under the id stay as they are.
C3_OpenOfRegisteredIdRejected ==
    [][\A c \in Clients :
         (/\ handle_ssh_connection_register(c)
          /\ openReq[c].present
          /\ ssh_sessions[openReq[c].session_id] # None)
         => /\ ssh_sessions' = ssh_sessions
            /\ objs' = objs]_vars

\* C4: when create_ssh_client fails, ssh has been closed before the error is
\* emitted, nothing is registered, no session object exists and no thread
\* runs for the request, and the error goes to the requester.
C4_OpenFailureReleases ==
    [][\A c \in Clients :
         /\ handle_ssh_connection_raise(c) =>
               /\ openReq'[c].ssh = "closed"
               /\ UNCHANGED <<ssh_sessions, client_sessions, objs>>
         /\ (\E k \in ErrKinds : handle_ssh_connection_failed(c, k)) =>
               /\ openReq[c].ssh = "closed"
               /\ objs[openReq[c].obj] = NoObj
               /\ openReq[c].obj \notin Registered
               /\ UNCHANGED <<ssh_sessions, client_sessions, objs>>
               /\ emitted'.event = "ssh_error"
               /\ emitted'.room = c
               /\ emitted'.session_id = openReq[c].session_id]_vars

\* A failed open has been reported to its requester.
C4_Witness ==
    \E c \in Clients :
        /\ emitted.event = "ssh_error"
        /\ emitted.type \in ErrKinds
        /\ emitted.room = c
        /\ openReq[c].pc = "idle"

\* C5: the registering step of an open leaves the session id registered
\* with the requester as owner, active, and with its read_output thread
\* started; ssh_connected is emitted to the requester, by a later step of a
\* request that has registered its session.
C5_OpenSuccess ==
    [][\A c \in Clients :
         /\ handle_ssh_connection_register(c) =>
               LET o == openReq[c].obj
                   s == openReq[c].session_id
               IN /\ ssh_sessions'[s] = o
                  /\ objs'[o].client_id = c
                  /\ objs'[o].active
                  /\ objs'[o].read_thread = "loop"
                  /\ s \in client_sessions'[c]
                  /\ emitted'.event # "ssh_connected"
         /\ emitted'.event = "ssh_connected" /\ emitted'.room = c =>
               /\ handle_ssh_connection_confirm(c)
               /\ objs[openReq[c].obj].client_id = c
               /\ objs[openReq[c].obj].session_id = emitted'.session_id
               /\ objs[openReq[c].obj].read_thread # "none"]_vars

\* The confirmation has reached the requester while its session is
\* registered, owned by it and active.
C5_Witness ==
    \E c \in Clients, s \in Sids :
        /\ emitted = Event("ssh_connected", c, s, "none")
        /\ ssh_sessions[s] # None
        /\ OwnerOf(s) = c
        /\ objs[ssh_sessions[s]].active
        /\ objs[ssh_sessions[s]].read_thread = "loop"

\* C6: a close request by the owner leaves the channel and the connection
\* of the session closed, the entry removed and ssh_closed emitted, also
\* when channel.close() raises.
C6_OwnerCloseReleases ==
    [][\A c \in Clients, s \in Sids :
         (CloseStep(c, s) /\ ssh_sessions[s] # None /\ OwnerOf(s) = c) =>
            LET o == ssh_sessions[s]
            IN /\ objs'[o].channel = "closed"
               /\ objs'[o].ssh_client = "closed"
               /\ ssh_sessions'[s] = None
               /\ emitted' = Event("ssh_closed", Broadcast, s, "none")]_vars

\* C7: a close request of a client that does not own the session, or for a
\* session id that is not registered, changes neither the session table nor
\* the per-client index nor any session object.
C7_ForeignCloseChangesNothing ==
    [][\A c \in Clients, s \in Sids :
         (CloseStep(c, s) /\ (ssh_sessions[s] = None \/ OwnerOf(s) # c)) =>
            UNCHANGED <<ssh_sessions, client_sessions, objs>>]_vars

\* A client has asked to close a session of another client, which is still
\* registered, active and open.
C7_Witness ==
    \E s \in Sids :
        /\ printed = "belongs to another client"
        /\ ssh_sessions[s] # None
        /\ objs[ssh_sessions[s]].active
        /\ objs[ssh_sessions[s]].channel = "open"
        /\ objs[ssh_sessions[s]].ssh_client = "open"

\* C8: when a client disconnects, every session it owns is closed and
\* removed from the session table.
C8_DisconnectCloses ==
    [][\A c \in Clients :
         Disconnect(c) =>
            \A s \in Sids :
               (ssh_sessions[s] # None /\ OwnerOf(s) = c) =>
                  /\ ssh_sessions'[s] = None
                  /\ objs'[ssh_sessions[s]].channel = "closed"
                  /\ objs'[ssh_sessions[s]].ssh_client = "closed"]_vars

\* C9: after the exit functions have run, every registered session has its
\* channel and its connection closed.
C9_ShutdownClosesAll ==
    phase = "exited" =>
        \A o \in Registered :
            objs[o].channel = "closed" /\ objs[o].ssh_client = "closed"

\* A session that was registered, is no longer, and whose thread has ended
Ended(o) ==
    /\ objs[o].client_id # NoClient
    /\ o \notin Registered
    /\ objs[o].read_thread = "done"

\* C10: no session has more than one ssh_closed event, and a session that
\* has ended has exactly one.
C10_ExactlyOneCloseEvent ==
    \A o \in Objs :
        /\ objs[o].closed_events <= 1
        /\ Ended(o) => objs[o].closed_events = 1

\* The teardown of a session object is under way: its channel is no longer
\* open and its read_output thread has not yet left its finally clause.
CloseInProgress(o) ==
    /\ objs[o].channel = "closed"
    /\ objs[o].read_thread \in {"loop", "finally"}

\* C11: a session id is in ssh_sessions exactly when the channel of its
\* session is open or the close of that session is in progress: the object
\* registered under an id has an open channel or is being torn down, and
\* every session object with an open channel is the one registered under
\* its id.
C11_RegisteredIffOpenOrClosing ==
    /\ \A s \in Sids :
          ssh_sessions[s] # None =>
             \/ objs[ssh_sessions[s]].channel = "open"
             \/ CloseInProgress(ssh_sessions[s])
    /\ \A o \in Objs :
          objs[o].channel = "open" => ssh_sessions[objs[o].session_id] = o

\* The number a string of decimal digits stands for
DigitValue(ch) == CHOOSE i \in 0..9 : DecimalDigit[i + 1] = ch
RECURSIVE int(_)
int(ds) ==
    IF ds = <<>> THEN 0
    ELSE 10 * int(SubSeq(ds, 1, Len(ds) - 1)) + DigitValue(ds[Len(ds)])

\* The size a resize request asks for, within the limits
WantCols == min(500, max(80, resizeReq.data[1]))
WantRows == min(200, max(24, resizeReq.data[2]))

\* The calls of a resize request on its channel are those of the claim
ResizeCallsAsWanted ==
    /\ handle_resize_pty =>
          resize_calls' = [obj |-> resizeReq.obj, pty |-> <<WantCols, WantRows>>,
                           env |-> <<>>, log |-> "none"]
    /\ handle_resize_env =>
          /\ resize_calls'.obj = resizeReq.obj
          /\ resize_calls'.pty = <<>>
          /\ Len(resize_calls'.env) = 2
          /\ int(resize_calls'.env[1]) = WantCols
          /\ int(resize_calls'.env[2]) = WantRows

\* C12 as worded: every resize of a registered session gives the channel
\* the size min(500, max(80, cols)) by min(200, max(24, rows)) and sets
\* COLUMNS and LINES to the same two numbers.
C12_ResizeClampedIfRegistered ==
    [][(/\ resizeReq.pc # "idle"
        /\ ssh_sessions[resizeReq.session_id] = resizeReq.obj)
       => ResizeCallsAsWanted]_vars

\* C12, amended: every resize of a session whose channel is open gives
\* the channel the size min(500, max(80, cols)) by min(200, max(24, rows))
\* and sets COLUMNS and LINES to the same two numbers; resize(10000, 10000)
\* gives (500, 200).
C12_ResizeClampedIfOpen ==
    [][(/\ resizeReq.pc # "idle"
        /\ objs[resizeReq.obj].channel = "open")
       => ResizeCallsAsWanted]_vars

\* A request for 10000 by 10000 has set the environment of the channel of a
\* registered session to 500 by 200.
C12_Witness ==
    /\ resize_calls.env = << <<"5", "0", "0">>, <<"2", "0", "0">> >>
    /\ resize_calls.obj \in Registered
    /\ objs[resize_calls.obj].channel = "open"

\* handle_ssh_close has taken the session of the resize request out of the
\* registry since the lookup
RemovedByClose ==
    /\ resizeReq.pc # "idle"
    /\ resizeReq.obj \notin Registered
    /\ ~objs[resizeReq.obj].active

\* A step that does nothing a client or the remote side can see
SilentNoOp ==
    /\ resize_calls'.obj = None
    /\ resize_calls'.pty = <<>> /\ resize_calls'.env = <<>>
    /\ wrote' = NoWrite
    /\ emitted' = NoEvent
    /\ resizeReq' = IdleResize
    /\ UNCHANGED <<connected, ssh_sessions, client_sessions, objs, nextObj,
                   openReq, phase>>

\* C13: a resize for a session id that is not registered makes no call on
\* any channel, emits nothing and changes nothing; the same holds for the
\* rest of a resize whose session a close has removed since the lookup.
C13_ResizeUnknownSilent ==
    [][/\ \A s \in Sids, d \in ResizeData :
            (\E c \in Clients : handle_resize_lookup(c, s, d) /\ ssh_sessions[s] = None)
               => SilentNoOp
       /\ ((handle_resize_pty \/ handle_resize_env) /\ RemovedByClose)
            => SilentNoOp]_vars

\* A resize has found its session closed and removed after the lookup and
\* has ended at the logged exception.
C13_Witness ==
    /\ resize_calls = [NoCalls EXCEPT !.log = "error"]
    /\ resizeReq = IdleResize
    /\ \A s \in Sids : ssh_sessions[s] = None
    /\ \E o \in Objs : objs[o].channel = "closed" /\ ~objs[o].active

\* All the bytes of a sequence of writes, in order
RECURSIVE Concat(_)
Concat(ws) == IF ws = <<>> THEN <<>> ELSE Head(ws) \o Concat(Tail(ws))

\* C14: an accepted input puts on the channel the input data followed by
\* one newline when it is pasted and not the last line, and the input data
\* alone otherwise.
C14_InputBytes ==
    [][\A c \in Clients, s \in Sids, d \in LongData, p \in BOOLEAN,
          l \in BOOLEAN, room \in 1..MaxPacket :
         (/\ handle_ssh_input(c, s, d, p, l, room)
          /\ ssh_sessions[s] # None
          /\ objs[ssh_sessions[s]].active
          /\ OwnerOf(s) = c
          /\ objs[ssh_sessions[s]].channel = "open")
         => /\ wrote'.obj = ssh_sessions[s]
            /\ Concat(wrote'.data) = IF p /\ ~l THEN d \o <<"\n">> ELSE d]_vars

\* The last step wrote exactly one zero byte on the channel of o
KeepaliveSent(o) == wrote.obj = o /\ wrote.data = << <<KeepaliveByte>> >>

\* C15: an iteration of read_output that finds nothing to read more than
\* 60 seconds after the last activity, on an open channel, sends exactly
\* one zero byte and sets last_activity to the current time; read_output
\* sends nothing else, sends no keepalive at 60 seconds or less, and never
\* moves last_activity back, so that the next keepalive is more than 60
\* seconds after this one.
C15_KeepaliveOncePerIdleMinute ==
    [][\A o \in Objs :
         /\ last_activity'[o] >= last_activity[o]
         /\ \A io \in ChannelStates :
               read_output_timed(o, io) =>
                  /\ wrote' # NoWrite => KeepaliveSent(o)'
                  /\ KeepaliveSent(o)' =>
                        /\ io = "nothing"
                        /\ now - last_activity[o] > 60
                        /\ last_activity'[o] = now
                        /\ now' - last_activity'[o] = 0
                  /\ (/\ io = "nothing"
                      /\ ~LoopGuardFails(o)
                      /\ objs[o].channel = "open"
                      /\ now - last_activity[o] > 60)
                     => KeepaliveSent(o)']_vars

\* One zero byte has just been sent on the channel of a session whose
\* thread started more than 120 seconds ago, and its clock is reset.
C15_Witness ==
    \E o \in Objs :
        /\ KeepaliveSent(o)
        /\ last_activity[o] = now
        /\ now > 2 * 60
        /\ objs[o].read_thread = "loop"

\* C16: every progress snapshot a query returns has 0 <= transferred <=
\* total when total is not zero, and 0 <= percent <= 100.
C16_ProgressWithinBounds ==
    response.result = "progress" =>
        /\ response.snapshot.total # 0 =>
              /\ 0 <= response.snapshot.transferred
              /\ response.snapshot.transferred <= response.snapshot.total
        /\ 0 <= response.snapshot.progress
        /\ response.snapshot.progress <= 100

\* The status a progress query for the id would report, "none" when the id
\* is not registered
StatusOf(t) == IF transfers[t] = None THEN "none" ELSE progs[transfers[t]].status

\* C17: no step takes the status of a transfer id from cancelled or error
\* back to normal.
C17_StatusNeverBackToNormal ==
    [][\A t \in Tids :
         StatusOf(t) \in {"cancelled", "error"} => StatusOf(t)' # "normal"]_vars

\* C18: a progress query for a transfer id whose cancellation has succeeded
\* reports the status cancelled.
C18_QueryAfterCancelReportsCancelled ==
    [][\A t \in Tids :
         (get_transfer_progress(t) /\ t \in cancel_acked) =>
            /\ response'.result = "progress"
            /\ response'.snapshot.status = "cancelled"]_vars

\* A staging file created by a request of the transfer id is on disk
StagingFileOf(t) == \E f \in Files : files[f].exists /\ files[f].transfer = t

TransferRoutes == {"upload_file", "download_file"}

\* C19: when an upload or download request has returned cancelled, no
\* staging file of its transfer is on disk.
C19_NoStagingFileAfterCancel ==
    (response.route \in TransferRoutes /\ response.result = "cancelled")
       => ~StagingFileOf(response.transfer_id)

\* C20: when an upload or download request has returned an error, no
\* staging file of its transfer is on disk and its id is not registered in
\* the TransferManager.
C20_ErrorReleasesFileAndEntry ==
    (response.route \in TransferRoutes /\ response.result = "error")
       => /\ ~StagingFileOf(response.transfer_id)
          /\ transfers[response.transfer_id] = None
          /\ cancel_flags[response.transfer_id] = "absent"

\* The last step ended a download request
DownloadEnded == downReq.pc = "idle" /\ response.route = "download_file"

\* C21: however a download request ends, no staging file of its transfer is
\* on disk, its id is not registered in the TransferManager and its sftp
\* and ssh are not left open.
C21_DownloadReleasesAll ==
    DownloadEnded =>
       /\ ~StagingFileOf(response.transfer_id)
       /\ transfers[response.transfer_id] = None
       /\ downLink # "open"

\* C22: a download whose transfer is cancelled while the remote file is
\* being pulled yields no chunk of the file: from then on the request only
\* waits or ends, with the cancelled outcome and nothing streamed.
C22_CancelledPullEmitsNothing ==
    [][(downReq.pc = "pulling" /\ progs[downReq.transfer_progress].cancelled) =>
          /\ downReq'.pc \in {"pulling", "idle"}
          /\ downReq'.streamed = 0
          /\ downReq'.pc = "idle" =>
                (response'.route = "download_file" /\ response'.result = "cancelled")]_vars

C22_Witness ==
    /\ response.route = "download_file"
    /\ response.result = "cancelled"
    /\ \E p \in Progs : progs[p].operation = "download" /\ progs[p].cancelled
                        /\ progs[p].current_size > 0
                        /\ progs[p].current_size < progs[p].total_size

\* The transfer of the id was cancelled and its progress entry is gone
CancelledAndRemoved(t) == t \in cancel_acked /\ transfers[t] = None

\* C23: once the progress entry of a cancelled transfer has been removed,
\* is_cancelled of its id is still true, and a later chunk of an upload
\* with that id is answered cancelled without being appended.
C23_CancelFlagOutlivesEntry ==
    [][\A t \in Tids :
         CancelledAndRemoved(t) =>
            /\ manager_is_cancelled(t)
            /\ \A l \in BOOLEAN, f \in Files :
                  upload_file_begin(t, 1, l, f, 0, OneBlock) =>
                     (response'.result = "cancelled" /\ upReq'.pc = "idle")]_vars

\* The chunks sent for a staging file came in index order, each once
InOrder(ds) == \A k \in 1..Len(ds) : ds[k].index = k - 1

\* The byte stream the chunks make up
Stream(ds) == Concat([k \in 1..Len(ds) |-> ds[k].data])

\* C24: when the final chunk of an upload whose chunks came in index order
\* starts the push, the staging file holds the concatenation of the chunks.
C24_ChunksReproduceStream ==
    upReq.pc = "pushing" =>
       LET f == files[upReq.temp_file_path]
       IN InOrder(f.delivered) =>
             (f.exists /\ f.content = Stream(f.delivered))

\* The upload request being handled re-sends a chunk that was already
\* delivered for the staging file, after a chunk of a higher index
Redelivery(f) ==
    /\ upReq.pc = "connecting"
    /\ upReq.chunk_index > 0
    /\ upReq.temp_file_id = f
    /\ \E j, k \in 1..Len(files[f].delivered) :
          /\ j < k
          /\ files[f].delivered[j] =
                [index |-> upReq.chunk_index, data |-> upReq.content]
          /\ files[f].delivered[k].index > upReq.chunk_index

\* C25: handling a chunk that is delivered again after a later chunk was
\* appended leaves the content of the staging file as it was.
C25_RedeliveryKeepsContent ==
    [][\A f \in Files :
         Redelivery(f) => files'[f].content = files[f].content]_vars

\* C26: an upload or download request answers cancelled only if its
\* transfer was cancelled, and a download that ends at a test of the
\* cancellation it finds set answers cancelled, not an error.
C26_CancelledIffCancelled ==
    [][/\ (response'.route \in TransferRoutes /\ response'.result = "cancelled")
             => response'.transfer_id \in cancel_acked'
       /\ (/\ downReq.pc \in {"pulling", "streaming"}
           /\ is_cancelled(progs[downReq.transfer_progress])
           /\ downReq'.pc = "idle")
             => response'.result = "cancelled"]_vars

\* C27: a pseudo-terminal size is applied to the channel of a session only
\* by a resize request of the client that owns the session.
C27_ResizeOnlyByOwner ==
    resize_calls.pty # <<>> =>
       resizeReq.client = objs[resize_calls.obj].client_id

\* C30: the entry of a session leaves ssh_sessions only once the channel
\* and the connection of the session are closed and its read_output task
\* has stopped.
C30_RemovedOnlyWhenReleased ==
    [][\A s \in Sids :
         LET o == ssh_sessions[s] IN
         (o # None /\ ssh_sessions'[s] # o) =>
            /\ objs'[o].channel = "closed"
            /\ objs'[o].ssh_client = "closed"
            /\ objs'[o].read_thread = "done"]_vars

\* The operations that write to the channel of a session or assign its
\* active flag
SessionWrites == {"send", "resize", "active"}

\* C28: every write to the channel of a session (input, keepalive byte,
\* resize) and every assignment of its active flag runs under the lock of
\* that session.
C28_SessionLockGuardsWrites ==
    \A h \in held : h.op \in SessionWrites => h.session_lock

\* The blocking operations on a channel, a connection or a thread
BlockingOps == {"send", "resize", "close", "join"}

\* C29: sessions_lock is held by no operation that blocks on a channel, a
\* connection or a thread, and by every read of and change to the session
\* table.
C29_RegistryLockOnlyForTable ==
    \A h \in held :
       /\ h.op \in BlockingOps => ~h.sessions_lock
       /\ h.op = "table" => h.sessions_lock

\* The read_output threads still in their loop that were started for
\* session id s
RunningPumps(s) ==
    {o \in Objs : objs[o].session_id = s /\ objs[o].read_thread = "loop"}

\* C31: a session id that is registered with an active session has exactly
\* one read_output thread running, any other session id has none.
C31_OnePumpPerActiveSession ==
    \A s \in Sids :
       Cardinality(RunningPumps(s)) =
          IF ssh_sessions[s] # None /\ objs[ssh_sessions[s]].active THEN 1 ELSE 0

\* C32: the finally clause of a read_output thread changes the active flag
\* of no session object other than the one the thread was started for.
C32_PumpExitMarksOwnSession ==
    [][\A o \in Objs :
         (objs[o].read_thread = "finally" /\ objs'[o].read_thread = "done") =>
            \A other \in Objs \ {o} : objs'[other].active = objs[other].active]_vars

\* The session object o is no longer the one registered under its id, or
\* is marked inactive, while its read_output thread is in the loop
PumpOrphaned(o) ==
    /\ objs[o].read_thread = "loop"
    /\ (ssh_sessions[objs[o].session_id] # o \/ ~objs[o].active)

\* C33: the read_output thread of a session that was removed from
\* ssh_sessions or marked inactive leaves its loop and ends, unless the
\* process exits first.
C33_OrphanedPumpTerminates ==
    \A o \in Objs :
       PumpOrphaned(o) ~> (objs[o].read_thread = "done" \/ phase = "exited")

\* C34: once read_output has received every byte the remote side wrote,
\* the text it emitted is the decoding of those bytes: a character whose
\* bytes arrived in two reads is emitted whole.
C34_NoDecodableOutputLost ==
    recv_queue = <<>> => output = decode_ignore(remote_bytes)

\* C35: a session id is in the set client_sessions keeps for a client
\* exactly when the session registered under the id is owned by that
\* client; so no id is in the sets of two clients.
C35_ClientIndexAgrees ==
    \A c \in Clients, s \in Sids :
       (c \in DOMAIN client_sessions /\ s \in client_sessions[c])
          <=> (ssh_sessions[s] # None /\ objs[ssh_sessions[s]].client_id = c)

\* The tasks, and what it is for a task to hold a lock or to wait for one
Tasks ==
    {HandlerTask(h) : h \in Clients} \cup {PumpTask(o) : o \in Objs}
    \cup {AtexitTask}

HoldsLock(t) ==
    sessions_lock_owner = t \/ \E o \in Objs : session_lock_owner[o] = t

SomeTaskWaits ==
    \/ \E h \in Clients :
          handler[h].pc \in {"want_sessions_lock", "want_session_lock"}
    \/ \E o \in Objs : pump[o] \in {"loop", "want_finally"}
    \/ atexit.pc \in {"want_cleanup", "cleanup", "want_cleanup_first"}

SomeTaskCanStep ==
    ENABLED (\/ \E h \in Clients : HandlerProgress(h)
             \/ \E o \in Objs : PumpProgress(o)
             \/ AtexitProgress)

\* sessions_lock is taken only by a task that holds no session.lock
LockOrderKept ==
    \A t \in Tasks :
       (sessions_lock_owner # t /\ sessions_lock_owner' = t) =>
          \A o \in Objs : session_lock_owner[o] # t

\* C36: no state is a deadlock (whenever a task waits, for a lock or for a
\* thread to end, some task can take a step), sessions_lock is always
\* taken before a session.lock, and whenever locks are held a state
\* follows in which every task that held one has released it: no lock is
\* held.
C36_NoDeadlock ==
    /\ [](SomeTaskWaits => SomeTaskCanStep)
    /\ [][LockOrderKept]_vars
    /\ (\E t \in Tasks : HoldsLock(t)) ~> (\A t \in Tasks : ~HoldsLock(t))

\* A handler waits for session.lock inside sessions_lock while a read_output
\* thread waits for sessions_lock and the exit has run its first cleanup
\* with that thread alive.
C36_Witness ==
    /\ \E h \in Clients : handler[h].pc = "want_session_lock"
    /\ \E o \in Objs : pump[o] \in {"loop", "want_finally"}
    /\ atexit.pc \in {"want_cleanup_first", "cleanup_first", "exited"}

\* The clients that own or owned a session opened under session id s
OwnersOf(s) == {objs[o].client_id : o \in {x \in Objs : objs[x].session_id = s}}

\* C37: an ssh_output or ssh_closed event of a session is emitted to the
\* room of a client that owns the session, to no other client.
C37_SessionEventsToOwnerOnly ==
    emitted.event \in {"ssh_output", "ssh_closed"} =>
       emitted.room \in OwnersOf(emitted.session_id)

\* The unlink calls of the call of cleanup_temp_file under way, or of the
\* last one, are at most max_retries, and each but the last one raised
\* PermissionError
BoundedRetry ==
    /\ Len(delReq.log) <= 3
    /\ \A i \in 1..(Len(delReq.log) - 1) : delReq.log[i] = "PermissionError"

\* C38: cleanup_temp_file calls os.unlink at most 3 times, calls it again
\* only after a PermissionError, lets no exception out and returns.
C38_BoundedDeletion ==
    /\ [](BoundedRetry /\ ~delReq.raised)
    /\ (delReq.pc = "loop") ~> (delReq.pc = "idle")

\* The third unlink of a call has raised PermissionError and the call has
\* returned with the file still on disk.
C38_Witness ==
    /\ delReq.pc = "idle"
    /\ delReq.log = <<"PermissionError", "PermissionError", "PermissionError">>
    /\ files[delReq.path].exists

\* C39: a staging file on disk is appended to or deleted only by a request
\* of the transfer that created it.
C39_StagingFileOwnedByCreator ==
    [][\A f \in Files :
         (files[f].exists /\ files'[f] # files[f]) =>
            upReq.transfer_id = files[f].transfer]_vars

\* C40: once the exit of the process has run its cleanup, no staging file
\* of an upload or a download is on disk.
C40_NoStagingFileAfterExit ==
    phase = "exited" => \A f \in Names : ~files[f].exists

====
